---- MODULE Spec2Model ----
(***************************************************************************)
(* A model of the mcp-core protocol dispatcher (mcp-core/src/protocol.rs)  *)
(* and of the request() paths of its four transports.                      *)
(*                                                                         *)
(* Spec       : outbound requests -- id allocation, the pending table,     *)
(*              response delivery, timeout and cancellation.               *)
(* SpecServer : inbound requests -- handler lookup, typed handlers and     *)
(*              the server loops that send the response.                   *)
(* SpecClient : a Client session -- initialize, strict mode and the        *)
(*              requests it sends to a ServerProtocolBuilder server.       *)
(* SpecSessions: the SSE sessions of one ServerSseTransport.               *)
(* SpecEnvelope: deserialization of one frame into JsonRpcMessage.         *)
(* SpecSecure : apply_secure_replacements on a JSON value.                 *)
(***************************************************************************)
EXTENDS Integers, Sequences, FiniteSets, TLC

\* ---------------------------------------------------------------- bounds
\* ids one Protocol hands out in a run (the AtomicU64 is capped by a guard)
MaxIds == 2
\* inbound Response frames the peer delivers in a run
MaxInbound == 2

\* ------------------------------------------------------- program constants
ConnectionClosed == -1
RequestTimeout == -2
MethodNotFound == -32601
InvalidParams == -32602
InternalError == -32603

\* event streams (GET /sse) accepted in a run
MaxSessions == 2

\* ------------------------------------------------------------ wire values
\* Option<JsonRpcError>::None
NoError == [code |-> 0, message |-> ""]

JsonRpcError(c, m) == [code |-> c, message |-> m]

\* JsonRpcResponse { id, result, error }; result "none" is Option::None
JsonRpcResponse(i, res, err) == [id |-> i, result |-> res, error |-> err]

\* the empty one-shot slot / no response
NoResponse == JsonRpcResponse(-1, "none", NoError)

\* what request() returns: Ok(response) or Err(anyhow error)
Ok(resp) == [ok |-> TRUE, err |-> "", resp |-> resp]
Err(msg) == [ok |-> FALSE, err |-> msg, resp |-> NoResponse]
NoResult == [ok |-> FALSE, err |-> "pending", resp |-> NoResponse]

\* the tasks that call request() concurrently on one transport
Callers == {"t1", "t2"}
NoOwner == "nobody"

Kinds == {"client_stdio", "client_sse", "server_stdio", "sse_session"}

\* ids a frame from the peer may carry: every id the run can issue, and one
\* that is never issued
IdSpace == 0..MaxIds

\* Response frames the peer may send
PeerResponses ==
    {JsonRpcResponse(i, "value", NoError) : i \in IdSpace}
    \cup {JsonRpcResponse(i, "none", JsonRpcError(InternalError, "peer error")) : i \in IdSpace}

VARIABLES
    kind,              \* which Transport implementation the run is about
    request_id,        \* Protocol.request_id
    pending,           \* keys of Protocol.pending_requests
    slot,              \* id -> value the one-shot receiver holds (NoResponse: none)
    signals,           \* id -> number of tx.send calls made on that id's sender
    call,              \* caller -> position in request() and what it returned
    issued,            \* ids in the order new_message_id returned them
    opened,            \* client transports: open() done and close() not yet
    stdin,             \* ClientStdioTransport.stdin: "Some" | "None"
    stdin_lock,        \* holder of the stdin mutex guard
    session_endpoint,  \* ClientSseTransport.session_endpoint: "Some" | "None"
    rx_open,           \* SSE session: the mpsc receiver still exists
    outbox,            \* ids of the Request frames written to the peer, in order
    inbound,           \* Response frames read from the peer so far
    last               \* the last dispatcher operation on an inbound Response

outboundVars == <<kind, request_id, pending, slot, signals, call, issued, opened, stdin,
                  stdin_lock, session_endpoint, rx_open, outbox, inbound, last>>

transportVars == <<opened, stdin, stdin_lock, session_endpoint, rx_open>>

\* inbound side (SpecServer)
VARIABLES
    client_connection, \* the server's ClientConnection record
    running,           \* the stdio loop of open() has not returned
    frames_in,         \* frames taken from the peer
    requests_in,       \* Request frames among them
    send_calls,        \* send_response calls made
    wire,              \* Responses written to the peer, in order
    tool_runs,         \* invocations of a registered tool's handler function
    served             \* the last inbound frame and what was done with it

inboundVars == <<client_connection, running, frames_in, requests_in, send_calls, wire, tool_runs, served>>

\* client session (SpecClient)
VARIABLES
    strict,            \* Client.strict
    protocol_version,  \* Client.protocol_version
    server_version,    \* ServerProtocolBuilder.protocol_version
    initialize_res,    \* Client.initialize_res: "None" | "Some"
    client_op,         \* the Client method being run and where it stands
    link,              \* frames the client wrote that the server has not read yet
    to_client,         \* Responses the server wrote that the client has not read yet
    notified,          \* a send of notifications/initialized has completed
    ops                \* Client methods called so far

clientVars == <<strict, protocol_version, server_version, initialize_res, client_op,
                link, to_client, notified, ops>>

\* SSE sessions of one ServerSseTransport (SpecSessions)
VARIABLES
    sessions,          \* keys of ServerSseTransport.sessions
    streams,           \* sessions whose event stream the client still holds
    announced,         \* sessions a notifications/initialized was posted to
    last_post,         \* the last POST to the message endpoint and its outcome
    channel,           \* session -> messages sent on its tx and not yet received
    events,            \* session -> the events emitted on its stream, in order
    ping               \* session -> where its ping task stands

sessionVars == <<sessions, streams, announced, last_post, channel, events, ping>>

\* deserialization of one inbound frame (SpecEnvelope)
VARIABLES
    envelope,          \* the top-level keys of the JSON object, in wire order
    parsed             \* what serde_json::from_str::<JsonRpcMessage> returned

envelopeVars == <<envelope, parsed>>

\* secure-value substitution (SpecSecure)
VARIABLES
    value,             \* the JSON value handed to apply_secure_replacements
    secure_values,     \* Client.env: key -> SecureValue
    environment,       \* the process environment: variable -> value
    applied            \* results of the applications made so far, in order

secureVars == <<value, secure_values, environment, applied>>

\* dispatch of inbound frames while handlers run (SpecDispatch)
VARIABLES
    inbox,             \* frames the peer has sent that no task has taken yet
    workers,           \* task -> where it stands in the read loop or in message_handler
    handlers_guard,    \* holder of the guard of Protocol.request_handlers
    sessions_guard,    \* holder of the guard of ServerSseTransport.sessions
    ask,               \* task -> the request() call it made and how it resolved
    replied            \* ids of the outbound requests the peer has answered

dispatchVars == <<inbox, workers, handlers_guard, sessions_guard, ask, replied>>

\* concurrent senders on one stdio transport (SpecWriters)
VARIABLES
    stream,            \* what has been written to the output pipe, in order
    senders,           \* task -> the send it is in and where it stands
    out_lock,          \* holder of the StdoutLock (server) or of the stdin guard (client)
    sends              \* sends started so far

writerVars == <<stream, senders, out_lock, sends>>

\* one direction of a connection: what one peer sends, the other reads
\* (SpecOrder)
VARIABLES
    sent_log,          \* the messages sent so far, in the order the sends completed
    pipe,              \* written and not yet read: the OS pipe, or the session's mpsc channel
    buffered,          \* lines the reading end's BufReader holds
    observed           \* messages poll_message has returned, in order

orderVars == <<sent_log, pipe, buffered, observed>>

\* client request() calls against an arbitrary peer (SpecResolve)
VARIABLES
    rpc,               \* caller -> where its request() call stands and how it ended
    in_pipe,           \* request lines written to the child's stdin and not yet read by it
    peer               \* the peer process or HTTP server: "up" | "closed"

resolveVars == <<rpc, in_pipe, peer>>

\* the session map of one SSE server under its mutex (SpecMap)
VARIABLES
    posts,             \* POST handler task -> where message_handler stands and for which session
    cursor             \* session -> where the unfold of its event stream stands

mapVars == <<posts, cursor>>

\* the read loop of a stdio transport over its input (SpecLoop)
VARIABLES
    script,            \* the lines the peer has written so far, in order
    unread,            \* those of them read_line has not returned yet
    ending,            \* the input after its last line: "open" | "eof" | "unreadable"
    loop_pc,           \* where the loop stands
    dispatched,        \* the messages handed to the Protocol, in order
    last_line          \* what the last read_line returned

loopVars == <<script, unread, ending, loop_pc, dispatched, last_line>>

\* one value of a wire type through serde_json and back (SpecWire)
VARIABLES
    wire_type,         \* the struct
    wire_value,        \* the value: pairs <<field, what the field holds>>
    wire_json,         \* the serialized object: pairs <<key, what the key holds>>
    wire_back,         \* the value deserialized from wire_json
    wire_pc            \* "none" | "built" | "serialized" | "deserialized"

wireVars == <<wire_type, wire_value, wire_json, wire_back, wire_pc>>

\* outbound requests of the SSE server's sessions (SpecShared)
VARIABLES
    via                \* caller -> the session whose request() it calls (0: none yet)

sharedVars == <<via>>

lateVars == <<mapVars, loopVars, wireVars, sharedVars>>

concVars == <<dispatchVars, writerVars, orderVars, resolveVars, lateVars>>

extVars == <<clientVars, sessionVars, envelopeVars, secureVars, concVars>>

vars == <<outboundVars, extVars>>

serverVars == <<inboundVars, extVars>>

allVars == <<outboundVars, inboundVars, extVars>>

IdleCall == [pc |-> "idle", id |-> -1, how |-> "none", result |-> NoResult]

\* Option<serde_json::Value> params of an inbound frame, by shape; name is the
\* "name" member of an object ("none": no such member)
NoParams == [shape |-> "absent", name |-> "none"]

NoRequest == [id |-> -1, method |-> "", params |-> NoParams]

NothingServed ==
    [frame |-> "none", req |-> NoRequest, resp |-> NoResponse, ran |-> FALSE,
     tool_ran |-> FALSE, written |-> FALSE, status |-> 0]

\* ServerProtocolBuilder::new: the connection record, nothing received yet
ServerIdle ==
    /\ client_connection = [initialized |-> FALSE, client_info |-> "None"]
    /\ running = TRUE
    /\ frames_in = 0
    /\ requests_in = 0
    /\ send_calls = 0
    /\ wire = <<>>
    /\ tool_runs = 0
    /\ served = NothingServed

\* ProtocolBuilder::build and the transports' constructors
OutboundIdle ==
    /\ request_id = 0
    /\ pending = {}
    /\ slot = [i \in IdSpace |-> NoResponse]
    /\ signals = [i \in IdSpace |-> 0]
    /\ call = [c \in Callers |-> IdleCall]
    /\ issued = <<>>
    /\ opened = FALSE
    /\ stdin = "None"
    /\ stdin_lock = NoOwner
    /\ session_endpoint = "None"
    /\ rx_open = TRUE
    /\ outbox = <<>>
    /\ inbound = 0
    /\ last = [op |-> "none", id |-> -1, hit |-> FALSE]

\* ProtocolVersion::as_str
V2024_11_05 == "2024-11-05"
V2025_03_26 == "2025-03-26"
LATEST_PROTOCOL_VERSION == V2025_03_26

\* no Client method has been called yet
IdleOp ==
    [name |-> "none", method |-> "", pc |-> "idle", sent |-> FALSE,
     after_notified |-> FALSE, announce |-> "no", answer |-> NoResponse, result |-> NoResult]

\* ClientBuilder::new and ServerProtocolBuilder::new, nothing exchanged yet
ClientIdle ==
    /\ strict = FALSE
    /\ protocol_version = LATEST_PROTOCOL_VERSION
    /\ server_version = LATEST_PROTOCOL_VERSION
    /\ initialize_res = "None"
    /\ client_op = IdleOp
    /\ link = <<>>
    /\ to_client = <<>>
    /\ notified = FALSE
    /\ ops = 0

NoPost == [session |-> 0, frame |-> "none", req |-> NoRequest, resp |-> NoResponse, status |-> 0]

\* session ids: sse_handler draws a fresh Uuid per stream; 0 stands for a POST
\* without the sessionId query parameter
SessionIds == 1..MaxSessions

NoPing == [pc |-> "none", periods |-> 0]

\* ServerSseTransport::new: no session yet
SessionsIdle ==
    /\ sessions = {}
    /\ streams = {}
    /\ announced = {}
    /\ last_post = NoPost
    /\ channel = [s \in SessionIds |-> <<>>]
    /\ events = [s \in SessionIds |-> <<>>]
    /\ ping = [s \in SessionIds |-> NoPing]

NotParsed == [done |-> FALSE, variant |-> "none", jsonrpc |-> ""]

EnvelopeIdle ==
    /\ envelope = <<>>
    /\ parsed = NotParsed

\* serde_json::Value, every value in one shape: t is the variant, s the text
\* of a String, kids the members of an Object (by key) or the items of an
\* Array (k is "")
Json(t, s, kids) == [t |-> t, s |-> s, kids |-> kids]
JNull == Json("null", "", <<>>)

\* keys the objects handed to apply_secure_replacements may have, in the
\* order serde_json::Map (a BTreeMap) keeps them
KeyOrder == <<"note", "token">>
ObjKeys == {KeyOrder[i] : i \in DOMAIN KeyOrder}

\* enum SecureValue, and "absent" for a key the HashMap does not hold
SecureValue(source, arg) == [source |-> source, arg |-> arg]
Absent == SecureValue("absent", "")

\* std::env: a variable is set to a value, or not set
EnvVars == {"TOKEN"}
NotSet == [set |-> FALSE, val |-> ""]

\* no secure value configured, nothing applied
SecureIdle ==
    /\ value = JNull
    /\ secure_values = [k \in ObjKeys |-> Absent]
    /\ environment = [n \in EnvVars |-> NotSet]
    /\ applied = <<>>

\* the tasks that run the read loop (stdio: the first one alone) or
\* message_handler (one per POST being served)
Workers == {"w1", "w2"}

\* the tasks that may call request(): a handler run by a worker, or the
\* application outside any handler
Tasks == Workers \cup {"app"}

NoFrame == [type |-> "none", id |-> -1, method |-> ""]
NotAsked == [id |-> -1, outcome |-> "none"]

\* nothing received, every task at the top of its loop, no guard held
DispatchIdle ==
    /\ inbox = <<>>
    /\ workers = [w \in Workers |-> [pc |-> "polling", frame |-> NoFrame]]
    /\ handlers_guard = NoOwner
    /\ sessions_guard = NoOwner
    /\ ask = [t \in Tasks |-> NotAsked]
    /\ replied = {}

IdleSender == [op |-> "none", pc |-> "idle", n |-> 0]

\* nothing written, nobody sending
WritersIdle ==
    /\ stream = <<>>
    /\ senders = [t \in Callers |-> IdleSender]
    /\ out_lock = NoOwner
    /\ sends = 0

\* nothing sent yet
OrderIdle ==
    /\ sent_log = <<>>
    /\ pipe = <<>>
    /\ buffered = <<>>
    /\ observed = <<>>

NoCall == [pc |-> "idle", id |-> -1, outcome |-> "none"]

\* no request() call made, the peer running
ResolveIdle ==
    /\ rpc = [c \in Callers |-> NoCall]
    /\ in_pipe = 0
    /\ peer = "up"

\* the tasks that run message_handler
Posters == {"p1", "p2"}

NoPostTask == [pc |-> "idle", session |-> 0, status |-> 0]

MapIdle ==
    /\ posts = [p \in Posters |-> NoPostTask]
    /\ cursor = [s \in SessionIds |-> "get_session"]

LoopIdle ==
    /\ script = <<>>
    /\ unread = <<>>
    /\ ending = "open"
    /\ loop_pc = "polling"
    /\ dispatched = <<>>
    /\ last_line = "none"

WireIdle ==
    /\ wire_type = "none"
    /\ wire_value = {}
    /\ wire_json = {}
    /\ wire_back = {}
    /\ wire_pc = "none"

SharedIdle == via = [c \in Callers |-> 0]

LateIdle == MapIdle /\ LoopIdle /\ WireIdle /\ SharedIdle

ConcIdle == DispatchIdle /\ WritersIdle /\ OrderIdle /\ ResolveIdle /\ LateIdle

ExtIdle == ClientIdle /\ SessionsIdle /\ EnvelopeIdle /\ SecureIdle /\ ConcIdle

Init == kind \in Kinds /\ OutboundIdle /\ ServerIdle /\ ExtIdle

\* the receiver half of id's one-shot channel is still held by a request() call
RxAlive(i) == \E c \in Callers : call[c].id = i /\ call[c].pc \in {"created", "waiting"}

\* request() returns: the future is dropped, and with it the stdin guard
Return(c, how, result) ==
    /\ call' = [call EXCEPT ![c] = [pc |-> "done", id |-> call[c].id, how |-> how, result |-> result]]
    /\ stdin_lock' = IF stdin_lock = c THEN NoOwner ELSE stdin_lock

\* ------------------------------------------------------------- Protocol

\* new_message_id reading the counter with load() instead of fetch_add(1)
NewMessageId_Load(c) ==
    /\ call[c].pc = "idle"
    /\ request_id < MaxIds
    /\ request_id' = request_id
    /\ issued' = Append(issued, request_id)
    /\ call' = [call EXCEPT ![c] = [pc |-> "alloc", id |-> request_id, how |-> "none", result |-> NoResult]]
    /\ UNCHANGED <<kind, pending, slot, signals, transportVars, outbox, inbound, last>>
    /\ UNCHANGED serverVars

\* Protocol::new_message_id, as called first thing by create_request
NewMessageId(c) ==
    /\ call[c].pc = "idle"
    /\ request_id < MaxIds
    /\ request_id' = request_id + 1
    /\ issued' = Append(issued, request_id)
    /\ call' = [call EXCEPT ![c] = [pc |-> "alloc", id |-> request_id, how |-> "none", result |-> NoResult]]
    /\ UNCHANGED <<kind, pending, slot, signals, transportVars, outbox, inbound, last>>
    /\ UNCHANGED serverVars

\* Protocol::create_request, after the id: the sender goes into the table
CreateRequest(c) ==
    /\ call[c].pc = "alloc"
    /\ pending' = pending \cup {call[c].id}
    /\ call' = [call EXCEPT ![c].pc = "created"]
    /\ UNCHANGED <<kind, request_id, slot, signals, issued, transportVars, outbox, inbound, last>>
    /\ UNCHANGED serverVars

\* handle_response taking whichever entry is pending instead of response.id's
handle_response_any(r) ==
    IF pending # {}
    THEN \E k \in pending :
            /\ pending' = pending \ {k}
            /\ signals' = [signals EXCEPT ![k] = @ + 1]
            /\ slot' = IF RxAlive(k) THEN [slot EXCEPT ![k] = r] ELSE slot
    ELSE UNCHANGED <<pending, signals, slot>>

\* handle_response keeping a response that finds no entry, for a later waiter
handle_response_keep(r) ==
    IF r.id \in pending
    THEN /\ pending' = pending \ {r.id}
         /\ signals' = [signals EXCEPT ![r.id] = @ + 1]
         /\ slot' = IF RxAlive(r.id) THEN [slot EXCEPT ![r.id] = r] ELSE slot
    ELSE /\ slot' = [slot EXCEPT ![r.id] = r]
         /\ UNCHANGED <<pending, signals>>

\* Protocol::handle_response: remove(&response.id), then tx.send(response)
handle_response(r) ==
    IF r.id \in pending
    THEN /\ pending' = pending \ {r.id}
         /\ signals' = [signals EXCEPT ![r.id] = @ + 1]
         /\ slot' = IF RxAlive(r.id) THEN [slot EXCEPT ![r.id] = r] ELSE slot
    ELSE UNCHANGED <<pending, signals, slot>>

\* cancel_response looking the sender up with get() and leaving the entry
cancel_response_get(i) ==
    IF i \in pending
    THEN /\ signals' = [signals EXCEPT ![i] = @ + 1]
         /\ UNCHANGED <<pending, slot>>
    ELSE UNCHANGED <<pending, signals, slot>>

\* Protocol::cancel_response: remove(&id), then tx.send(the synthetic response)
cancel_response(i) ==
    IF i \in pending
    THEN /\ pending' = pending \ {i}
         /\ signals' = [signals EXCEPT ![i] = @ + 1]
         /\ slot' = IF RxAlive(i)
                    THEN [slot EXCEPT ![i] =
                            JsonRpcResponse(i, "none", JsonRpcError(RequestTimeout, "Request cancelled"))]
                    ELSE slot
    ELSE UNCHANGED <<pending, signals, slot>>

\* the reader task (or the POST handler) is there to take frames from the peer
ReaderActive == kind \in {"server_stdio", "sse_session"} \/ opened

\* the Message::Response arm of the transports' read loops
HandleResponse(r) ==
    /\ inbound < MaxInbound
    /\ ReaderActive
    /\ handle_response(r)
    /\ inbound' = inbound + 1
    /\ last' = [op |-> "handle_response", id |-> r.id, hit |-> r.id \in pending]
    /\ UNCHANGED <<kind, request_id, call, issued, transportVars, outbox>>
    /\ UNCHANGED serverVars

\* --------------------------------------------------- sending the request

\* ClientStdioTransport::request up to the write of the line
ClientStdioSend(c) ==
    /\ kind = "client_stdio"
    /\ call[c].pc = "created"
    /\ stdin_lock = NoOwner
    /\ IF stdin = "None"
       THEN /\ Return(c, "send_failed", Err("Transport not opened"))
            /\ UNCHANGED <<stdin, outbox>>
       ELSE \E written \in BOOLEAN :
              IF written
              THEN /\ call' = [call EXCEPT ![c].pc = "waiting"]
                   /\ stdin_lock' = c
                   /\ outbox' = Append(outbox, call[c].id)
                   /\ UNCHANGED stdin
              ELSE /\ stdin' = "None"
                   /\ call' = [call EXCEPT ![c] = [pc |-> "done", id |-> call[c].id,
                                                   how |-> "send_failed", result |-> Err("write failed")]]
                   /\ UNCHANGED <<stdin_lock, outbox>>
    /\ UNCHANGED <<kind, request_id, pending, slot, signals, issued, opened,
                   session_endpoint, rx_open, inbound, last>>
    /\ UNCHANGED serverVars

\* ClientSseTransport::request up to the POST's status check
ClientSseSend(c) ==
    /\ kind = "client_sse"
    /\ call[c].pc = "created"
    /\ IF session_endpoint = "None"
       THEN /\ Return(c, "send_failed", Err("No session URL available"))
            /\ UNCHANGED outbox
       ELSE \E post \in {"success", "send_error", "bad_status"} :
              IF post = "success"
              THEN /\ call' = [call EXCEPT ![c].pc = "waiting"]
                   /\ outbox' = Append(outbox, call[c].id)
                   /\ UNCHANGED stdin_lock
              ELSE /\ Return(c, "send_failed",
                             Err(IF post = "send_error" THEN "send failed"
                                 ELSE "Failed to send request, status"))
                   /\ UNCHANGED outbox
    /\ UNCHANGED <<kind, request_id, pending, slot, signals, issued, opened, stdin,
                   session_endpoint, rx_open, inbound, last>>
    /\ UNCHANGED serverVars

\* ServerStdioTransport::request up to stdout.flush()
ServerStdioSend(c) ==
    /\ kind = "server_stdio"
    /\ call[c].pc = "created"
    /\ \E written \in BOOLEAN :
          IF written
          THEN /\ call' = [call EXCEPT ![c].pc = "waiting"]
               /\ outbox' = Append(outbox, call[c].id)
               /\ UNCHANGED stdin_lock
          ELSE /\ Return(c, "send_failed", Err("write failed"))
               /\ UNCHANGED outbox
    /\ UNCHANGED <<kind, request_id, pending, slot, signals, issued, opened, stdin,
                   session_endpoint, rx_open, inbound, last>>
    /\ UNCHANGED serverVars

\* ServerSseTransportSession::request up to tx.send(message)
SessionSend(c) ==
    /\ kind = "sse_session"
    /\ call[c].pc = "created"
    /\ IF rx_open
       THEN /\ call' = [call EXCEPT ![c].pc = "waiting"]
            /\ outbox' = Append(outbox, call[c].id)
            /\ UNCHANGED stdin_lock
       ELSE /\ Return(c, "send_failed",
                      Ok(JsonRpcResponse(call[c].id, "none",
                                         JsonRpcError(InternalError, "Failed to send request"))))
            /\ UNCHANGED outbox
    /\ UNCHANGED <<kind, request_id, pending, slot, signals, issued, opened, stdin,
                   session_endpoint, rx_open, inbound, last>>
    /\ UNCHANGED serverVars

\* ------------------------------------------------ waiting for the response

\* timeout(options.timeout, rx) completes with what the receiver yields:
\* the response, or RecvError when the sender is gone without having sent
AwaitResponse(c) ==
    /\ call[c].pc = "waiting"
    /\ \/ /\ slot[call[c].id] # NoResponse
          /\ Return(c, "response", Ok(slot[call[c].id]))
          /\ UNCHANGED <<pending, signals, slot>>
       \/ /\ slot[call[c].id] = NoResponse
          /\ call[c].id \notin pending
          /\ cancel_response(call[c].id)
          /\ Return(c, "closed",
                    Ok(JsonRpcResponse(call[c].id, "none",
                                       JsonRpcError(RequestTimeout, "Request cancelled"))))
    /\ UNCHANGED <<kind, request_id, issued, opened, stdin, session_endpoint, rx_open,
                   outbox, inbound, last>>
    /\ UNCHANGED serverVars

\* the timer of timeout(options.timeout, rx) wins: the receiver is dropped
TimeoutExpire(c) ==
    /\ call[c].pc = "waiting"
    /\ slot[call[c].id] = NoResponse
    /\ call' = [call EXCEPT ![c].pc = "expired"]
    /\ UNCHANGED <<kind, request_id, pending, slot, signals, issued, transportVars,
                   outbox, inbound, last>>
    /\ UNCHANGED serverVars

\* the Err(_) arm returning the synthetic response without cancel_response(id)
TimeoutArm_NoCancel(c, message) ==
    /\ call[c].pc = "expired"
    /\ Return(c, "timeout",
              Ok(JsonRpcResponse(call[c].id, "none", JsonRpcError(RequestTimeout, message))))
    /\ UNCHANGED <<kind, request_id, pending, signals, slot, issued, opened, stdin,
                   session_endpoint, rx_open, outbox, inbound, last>>
    /\ UNCHANGED serverVars

\* the Err(_) arm of `match result`: cancel_response(id), then the synthetic response
TimeoutArm(c, message) ==
    /\ call[c].pc = "expired"
    /\ cancel_response(call[c].id)
    /\ Return(c, "timeout",
              Ok(JsonRpcResponse(call[c].id, "none", JsonRpcError(RequestTimeout, message))))
    /\ UNCHANGED <<kind, request_id, issued, opened, stdin, session_endpoint, rx_open,
                   outbox, inbound, last>>
    /\ UNCHANGED serverVars

ClientStdioTimeout(c) == kind = "client_stdio" /\ TimeoutArm(c, "Request timed out")

ClientSseTimeout(c) == kind = "client_sse" /\ TimeoutArm(c, "Request timed out")

ServerStdioTimeout(c) == kind = "server_stdio" /\ TimeoutArm(c, "Request cancelled")

SessionTimeout(c) == kind = "sse_session" /\ TimeoutArm(c, "Request cancelled")

\* the caller takes the result and may call request() again
Finish(c) ==
    /\ call[c].pc = "done"
    /\ call' = [call EXCEPT ![c] = IdleCall]
    /\ UNCHANGED <<kind, request_id, pending, slot, signals, issued, transportVars,
                   outbox, inbound, last>>
    /\ UNCHANGED serverVars

\* ------------------------------------------------- transport open / close

\* ClientStdioTransport::open / ClientSseTransport::open
Open ==
    /\ kind \in {"client_stdio", "client_sse"}
    /\ ~opened
    /\ opened' = TRUE
    /\ IF kind = "client_stdio"
       THEN stdin_lock = NoOwner /\ stdin' = "Some" /\ UNCHANGED session_endpoint
       ELSE session_endpoint' = "Some" /\ UNCHANGED stdin
    /\ UNCHANGED <<kind, request_id, pending, slot, signals, call, issued, stdin_lock,
                   rx_open, outbox, inbound, last>>
    /\ UNCHANGED serverVars

\* ClientStdioTransport::close / ClientSseTransport::close
Close ==
    /\ kind \in {"client_stdio", "client_sse"}
    /\ opened
    /\ opened' = FALSE
    /\ IF kind = "client_stdio"
       THEN stdin_lock = NoOwner /\ stdin' = "None" /\ UNCHANGED session_endpoint
       ELSE session_endpoint' = "None" /\ UNCHANGED stdin
    /\ UNCHANGED <<kind, request_id, pending, slot, signals, call, issued, stdin_lock,
                   rx_open, outbox, inbound, last>>
    /\ UNCHANGED serverVars

\* the last clone of the session (and its receiver) is dropped while a
\* request() future, which owns a clone of tx, is still around
DropReceiver ==
    /\ kind = "sse_session"
    /\ rx_open
    /\ rx_open' = FALSE
    /\ UNCHANGED <<kind, request_id, pending, slot, signals, call, issued, opened, stdin,
                   stdin_lock, session_endpoint, outbox, inbound, last>>
    /\ UNCHANGED serverVars

Next ==
    \/ \E c \in Callers : NewMessageId(c)
    \/ \E c \in Callers : CreateRequest(c)
    \/ \E r \in PeerResponses : HandleResponse(r)
    \/ \E c \in Callers : ClientStdioSend(c)
    \/ \E c \in Callers : ClientSseSend(c)
    \/ \E c \in Callers : ServerStdioSend(c)
    \/ \E c \in Callers : SessionSend(c)
    \/ \E c \in Callers : AwaitResponse(c)
    \/ \E c \in Callers : TimeoutExpire(c)
    \/ \E c \in Callers : ClientStdioTimeout(c)
    \/ \E c \in Callers : ClientSseTimeout(c)
    \/ \E c \in Callers : ServerStdioTimeout(c)
    \/ \E c \in Callers : SessionTimeout(c)
    \/ \E c \in Callers : Finish(c)
    \/ Open
    \/ Close
    \/ DropReceiver

Spec == Init /\ [][Next]_vars

\* ------------------------------------------------------------------------
\* Properties of the outbound path (checked under Spec)
\* ------------------------------------------------------------------------

\* C1: the ids one Protocol hands out start at 0, each allocation returns the
\* previous one plus 1, and two calls in progress never hold the same id.
IdUniqueness ==
    /\ \A i \in 1..Len(issued) : issued[i] = i - 1
    /\ request_id = Len(issued)
    /\ \A c, d \in Callers : (c # d /\ call[c].id # -1) => call[c].id # call[d].id

\* two calls have allocated concurrently, neither has gone further
IdUniquenessWitness ==
    /\ Len(issued) >= 2
    /\ \A c \in Callers : call[c].pc = "alloc"

\* C2: a response delivered through handle_response reaches only the waiter
\* of the request with the same id: what request() returns as a delivered
\* response carries the id create_request allocated for that call.
ResponseCorrelation ==
    /\ \A c \in Callers :
          (call[c].pc = "done" /\ call[c].how = "response")
             => (call[c].result.ok /\ call[c].result.resp.id = call[c].id)
    /\ \A i \in IdSpace : slot[i] # NoResponse => slot[i].id = i

\* two requests outstanding, the later one answered first
ResponseCorrelationWitness ==
    \E c, d \in Callers :
        /\ call[c].pc = "done" /\ call[c].how = "response" /\ call[c].id = 1
        /\ call[d].pc = "waiting" /\ call[d].id = 0

\* C3: the one-shot sender of a request is used at most once, whatever the
\* order of handle_response, a duplicate handle_response and cancel_response;
\* once it has been used the table holds no entry for the id.
AtMostOneResolution ==
    \A i \in IdSpace : signals[i] <= 1 /\ (signals[i] = 1 => i \notin pending)

\* a response arrived between the timer's expiry and cancel_response, which
\* then found no entry
AtMostOneResolutionWitness ==
    \E c \in Callers :
        /\ call[c].pc = "done" /\ call[c].how = "timeout"
        /\ last = [op |-> "handle_response", id |-> call[c].id, hit |-> TRUE]
        /\ signals[call[c].id] = 1

\* C4: once a request() call has returned, for whatever reason, the pending
\* table holds no entry for its id.
NoEntryAfterReturn ==
    \A c \in Callers : call[c].pc = "done" => call[c].id \notin pending

\* C5: a request() call whose timer expired returns a synthetic response with
\* the request's id, no result and error code RequestTimeout, and leaves no
\* pending entry for the id, on each of the four transports.
TimeoutResolution ==
    \A c \in Callers :
        (call[c].pc = "done" /\ call[c].how = "timeout")
           => /\ call[c].id \notin pending
              /\ call[c].result.ok
              /\ call[c].result.resp.id = call[c].id
              /\ call[c].result.resp.result = "none"
              /\ call[c].result.resp.error.code = RequestTimeout

\* a timed-out call on a server transport, with no response ever delivered
TimeoutResolutionWitness ==
    \E c \in Callers :
        /\ kind = "sse_session"
        /\ call[c].pc = "done" /\ call[c].how = "timeout"
        /\ inbound = 0

\* C6: a request whose timer expires resolves with the message
\* "Request timed out" on every transport.
TimeoutMessage ==
    \A c \in Callers :
        (call[c].pc = "done" /\ call[c].how = "timeout")
           => call[c].result.resp.error.message = "Request timed out"

\* C7: handle_response for an id with no pending entry changes nothing: the
\* table, the counter, the slots, the callers and the output stay as they were.
UnknownResponseIsNoOp ==
    [][(inbound' # inbound /\ last'.id \notin pending)
          => UNCHANGED <<pending, request_id, slot, signals, call, issued, outbox,
                         transportVars>>]_vars

\* a response arrived after its request had timed out and been cancelled
UnknownResponseIsNoOpWitness ==
    \E c \in Callers :
        /\ call[c].pc = "done" /\ call[c].how = "timeout"
        /\ last = [op |-> "handle_response", id |-> call[c].id, hit |-> FALSE]
        /\ \E d \in Callers : call[d].pc = "waiting"

\* ------------------------------------------------------------------------
\* Inbound requests: Protocol::handle_request, the typed handlers installed by
\* ServerProtocolBuilder::build, and the loops that send the response
\* ------------------------------------------------------------------------

\* inbound frames the server takes in a run
MaxServed == 3

\* ids the peer puts on its requests
ReqIds == {0, 7}

\* the last one has no handler in a server built by ServerProtocolBuilder
Methods == {"initialize", "tools/list", "tools/call", "resources/list"}

\* the tools registered with register_tool
ToolNames == {"echo"}

ParamValues ==
    {NoParams, [shape |-> "null", name |-> "none"], [shape |-> "string", name |-> "none"]}
    \cup {[shape |-> "object", name |-> n] : n \in {"none", "echo", "nope"}}

Requests == [id : ReqIds, method : Methods, params : ParamValues]

Notifications ==
    [id : {-1}, method : {"notifications/initialized", "notifications/cancelled"},
     params : {NoParams, [shape |-> "object", name |-> "none"]}]

\* the methods ServerProtocolBuilder::build registers request handlers for
request_handlers == {"initialize", "tools/list", "tools/call"}

\* TypedRequestHandler::handle: absent or null params are read as json!({})
HandlerParams(p) ==
    IF p.shape \in {"absent", "null"} THEN [shape |-> "object", name |-> "none"] ELSE p

\* serde_json::from_value into the handler's input type: InitializeRequest
\* (every field defaulted) and ListRequest (every field optional) take any
\* object, CallToolRequest needs the string member "name"
Deserializes(method, p) ==
    IF method = "tools/call"
    THEN HandlerParams(p).shape = "object" /\ HandlerParams(p).name # "none"
    ELSE HandlerParams(p).shape = "object"

\* outcome of a handler: Ok(result) or Err(message); ran: the user closure ran
Outcome(ok, result, message, ran, tool_ran) ==
    [ok |-> ok, result |-> result, message |-> message, ran |-> ran, tool_ran |-> tool_ran]

\* call_tool turning a CallToolResponse with is_error = true into an Err
call_tool_failing(name, is_error) ==
    IF name \in ToolNames
    THEN IF is_error
         THEN Outcome(FALSE, "none", "tool failed", TRUE, TRUE)
         ELSE Outcome(TRUE, "call_ok", "", TRUE, TRUE)
    ELSE Outcome(FALSE, "none", "Tool not found: " \o name, TRUE, FALSE)

\* call_tool reporting a missing tool as a CallToolResponse with is_error = true
call_tool_lenient(name, is_error) ==
    IF name \in ToolNames
    THEN Outcome(TRUE, IF is_error THEN "call_is_error" ELSE "call_ok", "", TRUE, TRUE)
    ELSE Outcome(TRUE, "call_is_error", "", TRUE, FALSE)

\* Tools::call_tool: Ok with the CallToolResponse the registered function
\* returned ("call_is_error": is_error = Some(true) and a text content, as
\* tool_error_response! builds it), or Err when the name is not registered
call_tool(name, is_error) ==
    IF name \in ToolNames
    THEN Outcome(TRUE, IF is_error THEN "call_is_error" ELSE "call_ok", "", TRUE, TRUE)
    ELSE Outcome(FALSE, "none", "Tool not found: " \o name, TRUE, FALSE)

\* the closures without the check of conn.initialized
UserHandler_Ungated(method, p, is_error) ==
    CASE method = "initialize" -> Outcome(TRUE, "initialize", "", TRUE, FALSE)
      [] method = "tools/list" -> Outcome(TRUE, "tools", "", TRUE, FALSE)
      [] OTHER -> call_tool(HandlerParams(p).name, is_error)

\* the closures ServerProtocolBuilder::build registers, given deserialized params
UserHandler(method, p, is_error) ==
    CASE method = "initialize" -> Outcome(TRUE, "initialize", "", TRUE, FALSE)
      [] method = "tools/list" ->
            IF ~client_connection.initialized
            THEN Outcome(FALSE, "none", "Client not initialized", TRUE, FALSE)
            ELSE Outcome(TRUE, "tools", "", TRUE, FALSE)
      [] OTHER ->
            IF ~client_connection.initialized
            THEN Outcome(FALSE, "none", "Client not initialized", TRUE, FALSE)
            ELSE call_tool(HandlerParams(p).name, is_error)

\* TypedRequestHandler::handle: from_value(params)?, then the closure
TypedRequestHandler(req, is_error) ==
    IF Deserializes(req.method, req.params)
    THEN UserHandler(req.method, req.params, is_error)
    ELSE Outcome(FALSE, "none", "serde: invalid params", FALSE, FALSE)

\* handle_request answering an unknown method with the default id
handle_request_default_id(req, is_error) ==
    IF req.method \in request_handlers
    THEN LET out == TypedRequestHandler(req, is_error)
         IN  IF out.ok
             THEN JsonRpcResponse(req.id, out.result, NoError)
             ELSE JsonRpcResponse(req.id, "none", JsonRpcError(InternalError, out.message))
    ELSE JsonRpcResponse(0, "none", JsonRpcError(MethodNotFound, "Method not found: " \o req.method))

\* handle_request answering an unknown method as a handler failure
handle_request_internal(req, is_error) ==
    IF req.method \in request_handlers
    THEN LET out == TypedRequestHandler(req, is_error)
         IN  IF out.ok
             THEN JsonRpcResponse(req.id, out.result, NoError)
             ELSE JsonRpcResponse(req.id, "none", JsonRpcError(InternalError, out.message))
    ELSE JsonRpcResponse(req.id, "none", JsonRpcError(InternalError, "Method not found: " \o req.method))

\* Protocol::handle_request: the Response it returns
handle_request(req, is_error) ==
    IF req.method \in request_handlers
    THEN LET out == TypedRequestHandler(req, is_error)
         IN  IF out.ok
             THEN JsonRpcResponse(req.id, out.result, NoError)
             ELSE JsonRpcResponse(req.id, "none", JsonRpcError(InternalError, out.message))
    ELSE JsonRpcResponse(req.id, "none", JsonRpcError(MethodNotFound, "Method not found: " \o req.method))

\* Protocol::handle_request: what running the handler does to the server
HandlerEffects(req, is_error) ==
    LET found == req.method \in request_handlers
        out == TypedRequestHandler(req, is_error)
    IN  /\ client_connection' =
              IF found /\ req.method = "initialize" /\ out.ran
              THEN [client_connection EXCEPT !.client_info = "Some"]
              ELSE client_connection
        /\ tool_runs' = IF found /\ out.tool_ran THEN tool_runs + 1 ELSE tool_runs

\* ServerStdioTransport::open, the Message::Request arm: handle_request, then
\* send_response(..).await? -- a failed write ends the loop with the error
StdioServeRequest(req) ==
    /\ kind = "server_stdio"
    /\ running
    /\ frames_in < MaxServed
    /\ \E is_error \in BOOLEAN, written \in BOOLEAN :
         LET response == handle_request(req, is_error)
             out == TypedRequestHandler(req, is_error)
             found == req.method \in request_handlers
         IN  /\ HandlerEffects(req, is_error)
             /\ frames_in' = frames_in + 1
             /\ requests_in' = requests_in + 1
             /\ send_calls' = send_calls + 1
             /\ wire' = IF written THEN Append(wire, response) ELSE wire
             /\ running' = written
             /\ served' = [frame |-> "request", req |-> req, resp |-> response,
                           ran |-> found /\ out.ran, tool_ran |-> found /\ out.tool_ran,
                           written |-> written, status |-> 0]
    /\ UNCHANGED vars

\* message_handler, the JsonRpcMessage::Request arm: handle_request, then the
\* session's send_response enqueues the Response; 202, or 500 when that fails
SsePostRequest(req) ==
    /\ kind = "sse_session"
    /\ frames_in < MaxServed
    /\ \E is_error \in BOOLEAN :
         LET response == handle_request(req, is_error)
             out == TypedRequestHandler(req, is_error)
             found == req.method \in request_handlers
         IN  /\ HandlerEffects(req, is_error)
             /\ frames_in' = frames_in + 1
             /\ requests_in' = requests_in + 1
             /\ send_calls' = send_calls + 1
             /\ wire' = IF rx_open THEN Append(wire, response) ELSE wire
             /\ served' = [frame |-> "request", req |-> req, resp |-> response,
                           ran |-> found /\ out.ran, tool_ran |-> found /\ out.tool_ran,
                           written |-> rx_open, status |-> IF rx_open THEN 202 ELSE 500]
    /\ UNCHANGED <<running, vars>>

\* handle_initialized refusing the notification until initialize was handled
handle_notification_gated(n) ==
    IF /\ n.method = "notifications/initialized"
       /\ n.params.shape \in {"absent", "null"}
       /\ client_connection.client_info = "Some"
    THEN [client_connection EXCEPT !.initialized = TRUE]
    ELSE client_connection

\* handle_initialized marking the connection whatever the params are
handle_notification_lenient(n) ==
    IF n.method = "notifications/initialized"
    THEN [client_connection EXCEPT !.initialized = TRUE]
    ELSE client_connection

\* Protocol::handle_notification with the handler ServerProtocolBuilder::build
\* registers (handle_initialized): TypedNotificationHandler reads absent or
\* null params as Null, which is what the handler's input type () deserializes
\* from; any other params are an Err that is logged. The connection record after.
handle_notification(n) ==
    IF n.method = "notifications/initialized" /\ n.params.shape \in {"absent", "null"}
    THEN [client_connection EXCEPT !.initialized = TRUE]
    ELSE client_connection

\* the Message::Notification arm of ServerStdioTransport::open and the
\* JsonRpcMessage::Notification arm of message_handler
ServeNotification(n) ==
    /\ running
    /\ frames_in < MaxServed
    /\ client_connection' = handle_notification(n)
    /\ frames_in' = frames_in + 1
    /\ served' = [NothingServed EXCEPT !.frame = "notification", !.req = n,
                  !.status = IF kind = "sse_session" THEN 202 ELSE 0]
    /\ UNCHANGED <<running, requests_in, send_calls, wire, tool_runs, vars>>

InitServer == kind \in {"server_stdio", "sse_session"} /\ OutboundIdle /\ ServerIdle /\ ExtIdle

NextServer ==
    \/ \E req \in Requests : StdioServeRequest(req)
    \/ \E req \in Requests : SsePostRequest(req)
    \/ \E n \in Notifications : ServeNotification(n)

SpecServer == InitServer /\ [][NextServer]_serverVars

\* ------------------------------------------------------------------------
\* Properties of the inbound path (checked under SpecServer)
\* ------------------------------------------------------------------------

\* C8: every inbound Request gets exactly one Response, with the request's
\* id, whatever the method, the params and the handler's outcome: one
\* send_response call is made per Request, with the Response handle_request
\* returned, and that Response is the one written to the peer.
ExactlyOneResponse ==
    /\ send_calls = requests_in
    /\ Len(wire) <= send_calls
    /\ (running /\ rx_open) => Len(wire) = requests_in
    /\ served.frame = "request" =>
          /\ served.resp.id = served.req.id
          /\ served.written => wire[Len(wire)] = served.resp

\* a handler error and a missing handler have both been answered, each once
ExactlyOneResponseWitness ==
    /\ requests_in = 2
    /\ Len(wire) = 2
    /\ wire[1].error.code = InternalError /\ wire[1].id = 7
    /\ wire[2].error.code = MethodNotFound /\ wire[2].id = 0

\* C9: a Request whose method has no registered handler is answered with the
\* request's id, no result and error code MethodNotFound; no handler runs and
\* the server's state stays as it was.
MethodNotFoundResponse ==
    [][(requests_in' # requests_in /\ served'.req.method \notin request_handlers)
          => /\ served'.resp.id = served'.req.id
             /\ served'.resp.result = "none"
             /\ served'.resp.error.code = MethodNotFound
             /\ ~served'.ran /\ ~served'.tool_ran
             /\ UNCHANGED <<client_connection, tool_runs>>]_serverVars

\* an unknown method answered on an initialized connection
MethodNotFoundResponseWitness ==
    /\ served.frame = "request"
    /\ served.req.method = "resources/list"
    /\ served.resp.error.code = MethodNotFound
    /\ client_connection.initialized

\* C10: a Request whose params the registered handler cannot deserialize is
\* answered with error code InvalidParams, and the user handler is not run.
InvalidParamsResponse ==
    (/\ served.frame = "request"
     /\ served.req.method \in request_handlers
     /\ ~Deserializes(served.req.method, served.req.params))
       => (served.resp.error.code = InvalidParams /\ ~served.ran)

CalledTool == HandlerParams(served.req.params).name

\* a tools/call whose params are a CallToolRequest was served on an
\* initialized connection
ToolCallServed ==
    /\ served.frame = "request"
    /\ served.req.method = "tools/call"
    /\ Deserializes("tools/call", served.req.params)
    /\ client_connection.initialized

\* C16: on an initialized connection a tools/call naming a registered tool is
\* answered with the request's id, a result and no error, whatever the tool's
\* function returned: a CallToolResponse with is_error = true is the result,
\* never a JSON-RPC error.
ToolFailureIsResult ==
    (ToolCallServed /\ CalledTool \in ToolNames)
       => /\ served.tool_ran
          /\ served.resp.id = served.req.id
          /\ served.resp.result \in {"call_ok", "call_is_error"}
          /\ served.resp.error = NoError

\* a tool's CallToolResponse with is_error = true was delivered as the result
ToolFailureIsResultWitness ==
    /\ ToolCallServed
    /\ CalledTool = "echo"
    /\ served.resp.result = "call_is_error"
    /\ served.resp.error = NoError
    /\ served.written

\* C17: on an initialized connection a tools/call whose name is not in the
\* registry is answered with the request's id, no result and an InternalError
\* whose message is "Tool not found: <name>"; no tool function runs, and the
\* answer is not a CallToolResponse.
UnknownToolIsError ==
    (ToolCallServed /\ CalledTool \notin ToolNames)
       => /\ ~served.tool_ran
          /\ served.resp = JsonRpcResponse(served.req.id, "none",
                               JsonRpcError(InternalError, "Tool not found: " \o CalledTool))

\* the unregistered tool "nope" was asked for and refused, with no tool run so far
UnknownToolIsErrorWitness ==
    /\ ToolCallServed
    /\ CalledTool = "nope"
    /\ served.resp.error.code = InternalError
    /\ served.resp.error.message = "Tool not found: nope"
    /\ tool_runs = 0

\* ------------------------------------------------------------------------
\* Client session: Client (client.rs) over a client transport, talking to
\* the server ServerProtocolBuilder::build makes (SpecClient)
\* ------------------------------------------------------------------------

\* Client methods called in a run
MaxOps == 3

ProtocolVersions == {V2024_11_05, V2025_03_26}

\* the Client methods that begin with `if self.strict { assert_initialized }`
CheckedMethods ==
    {"list_tools", "call_tool", "list_resources", "read_resource",
     "subscribe_to_resource", "unsubscribe_to_resource"}

\* the JSON-RPC method each of them requests
MethodOf(name) ==
    CASE name = "list_tools" -> "tools/list"
      [] name = "call_tool" -> "tools/call"
      [] name = "list_resources" -> "resources/list"
      [] name = "read_resource" -> "resources/read"
      [] name = "subscribe_to_resource" -> "resources/subscribe"
      [] OTHER -> "resources/unsubscribe"

\* a params object; n is its "name" member ("none": no such member)
ObjectParams(n) == [shape |-> "object", name |-> n]

\* the variables no step of the client session writes (Client::open aside)
clientRest ==
    <<kind, pending, slot, signals, call, issued, opened, stdin_lock, session_endpoint,
      rx_open, outbox, inbound, last, running, frames_in, requests_in, send_calls, wire,
      strict, protocol_version, server_version, sessionVars, envelopeVars, secureVars,
      concVars>>

\* the transport has somewhere to write to: ClientStdioTransport.stdin, or
\* ClientSseTransport.session_endpoint, is Some
Reachable == IF kind = "client_stdio" THEN stdin = "Some" ELSE session_endpoint = "Some"

\* the error a transport returns when it did not write the frame
TransportErr ==
    IF Reachable THEN Err("send failed")
    ELSE IF kind = "client_stdio" THEN Err("Transport not opened")
    ELSE Err("No session URL available")

\* the transport writes one frame (a line on stdin, or a POST) or fails; a
\* failed write leaves ClientStdioTransport.stdin None
Put(frame, delivered) ==
    /\ link' = IF Reachable /\ delivered THEN Append(link, frame) ELSE link
    /\ stdin' = IF kind = "client_stdio" /\ stdin = "Some" /\ ~delivered THEN "None" ELSE stdin

\* a Client method may be called: the previous one has returned
Callable == client_op.pc \in {"idle", "done"} /\ ops < MaxOps

\* a Client method returns
Returned(name, method, sent, answer, result) ==
    [name |-> name, method |-> method, pc |-> "done", sent |-> sent,
     after_notified |-> notified, announce |-> "no", answer |-> answer, result |-> result]

\* Client::request, up to where transport.request waits for the Response
ClientRequest(name, method, params) ==
    \E delivered \in BOOLEAN :
       /\ Put([id |-> request_id, method |-> method, params |-> params], delivered)
       /\ request_id' = request_id + 1
       /\ client_op' =
             IF Reachable /\ delivered
             THEN [Returned(name, method, TRUE, NoResponse, NoResult) EXCEPT !.pc = "awaiting"]
             ELSE Returned(name, method, FALSE, NoResponse, TransportErr)

\* Client::assert_initialized returns Ok
assert_initialized == initialize_res = "Some"

\* Client::initialize, up to the wait for the server's Response
Initialize ==
    /\ Callable
    /\ ops' = ops + 1
    /\ ClientRequest("initialize", "initialize", ObjectParams("none"))
    /\ UNCHANGED <<client_connection, tool_runs, served, initialize_res, to_client,
                   notified, clientRest>>

\* list_tools, call_tool, list_resources, read_resource, subscribe_to_resource
\* and unsubscribe_to_resource: the strict-mode check, then Client::request
CheckedCall(name, tool) ==
    /\ Callable
    /\ ops' = ops + 1
    /\ IF strict /\ ~assert_initialized
       THEN /\ client_op' = Returned(name, MethodOf(name), FALSE, NoResponse, Err("Not initialized"))
            /\ UNCHANGED <<request_id, link, stdin>>
       ELSE ClientRequest(name, MethodOf(name),
                          IF name = "call_tool" THEN ObjectParams(tool) ELSE ObjectParams("none"))
    /\ UNCHANGED <<client_connection, tool_runs, served, initialize_res, to_client,
                   notified, clientRest>>

\* params the application hands to Client::request
GenericParams == {NoParams, ObjectParams("echo")}

\* Client::request called by the application: no strict-mode check
GenericRequest(method, params) ==
    /\ Callable
    /\ ops' = ops + 1
    /\ ClientRequest("request", method, params)
    /\ UNCHANGED <<client_connection, tool_runs, served, initialize_res, to_client,
                   notified, clientRest>>

\* the server end takes the next frame: the loop of ServerStdioTransport::open,
\* or message_handler for the POST; a Request is answered, in order
ServerRead ==
    /\ link # <<>>
    /\ link' = Tail(link)
    /\ LET frame == Head(link)
       IN  IF frame.id = -1
           THEN /\ client_connection' = handle_notification(frame)
                /\ served' = [NothingServed EXCEPT !.frame = "notification", !.req = frame]
                /\ UNCHANGED <<to_client, tool_runs>>
           ELSE \E is_error \in BOOLEAN :
                  LET out == TypedRequestHandler(frame, is_error)
                      found == frame.method \in request_handlers
                  IN  /\ HandlerEffects(frame, is_error)
                      /\ to_client' = Append(to_client, handle_request(frame, is_error))
                      /\ served' = [frame |-> "request", req |-> frame,
                                    resp |-> handle_request(frame, is_error),
                                    ran |-> found /\ out.ran, tool_ran |-> found /\ out.tool_ran,
                                    written |-> TRUE, status |-> 0]
    /\ UNCHANGED <<request_id, stdin, initialize_res, client_op, notified, ops, clientRest>>

\* handle_init: the InitializeResponse carries the server's configured
\* version and server info (the result "initialize" on the wire)
InitializeResponse == [protocol_version |-> server_version, server_info |-> "server"]

\* Client::initialize accepting every protocol version
SupportedVersion_Any(v) == TRUE

\* Client::initialize: response.protocol_version == self.protocol_version.as_str()
SupportedVersion(v) == v = protocol_version

\* the awaited Response arrives: Client::request turns a Response without a
\* result into an Err; Client::initialize checks the version and caches
ClientReceive ==
    /\ client_op.pc = "awaiting"
    /\ to_client # <<>>
    /\ to_client' = Tail(to_client)
    /\ LET response == Head(to_client)
       IN  IF response.result = "none"
           THEN /\ client_op' = [client_op EXCEPT !.pc = "done", !.answer = response,
                                                  !.result = Err("Request failed")]
                /\ UNCHANGED initialize_res
           ELSE IF client_op.name # "initialize"
           THEN /\ client_op' = [client_op EXCEPT !.pc = "done", !.answer = response,
                                                  !.result = Ok(response)]
                /\ UNCHANGED initialize_res
           ELSE IF SupportedVersion(InitializeResponse.protocol_version)
           THEN /\ initialize_res' = "Some"
                /\ client_op' = [client_op EXCEPT !.pc = "notifying", !.answer = response]
           ELSE /\ client_op' = [client_op EXCEPT !.pc = "done", !.answer = response,
                                                  !.result = Err("Unsupported protocol version")]
                /\ UNCHANGED initialize_res
    /\ UNCHANGED <<request_id, stdin, link, client_connection, tool_runs, served,
                   notified, ops, clientRest>>

\* Client::initialize, send_notification("notifications/initialized", None)?:
\* the stdio transport returns once the line is written, the SSE transport
\* once the POST has been answered
SendInitialized ==
    /\ client_op.pc = "notifying"
    /\ \E delivered \in BOOLEAN :
         /\ Put([id |-> -1, method |-> "notifications/initialized", params |-> NoParams], delivered)
         /\ IF Reachable /\ delivered
            THEN IF kind = "client_stdio"
                 THEN /\ notified' = TRUE
                      /\ client_op' = [client_op EXCEPT !.pc = "done", !.announce = "sent",
                                                        !.result = Ok(client_op.answer)]
                 ELSE /\ client_op' = [client_op EXCEPT !.pc = "posted", !.announce = "sent"]
                      /\ UNCHANGED notified
            ELSE /\ client_op' = [client_op EXCEPT !.pc = "done", !.announce = "failed",
                                                   !.result = TransportErr]
                 /\ UNCHANGED notified
    /\ UNCHANGED <<request_id, to_client, client_connection, tool_runs, served,
                   initialize_res, ops, clientRest>>

\* ClientSseTransport::send_notification: the POST returns 202 once
\* message_handler has run handle_notification; Client::initialize returns Ok
PostAccepted ==
    /\ client_op.pc = "posted"
    /\ link = <<>>
    /\ notified' = TRUE
    /\ client_op' = [client_op EXCEPT !.pc = "done", !.result = Ok(client_op.answer)]
    /\ UNCHANGED <<request_id, stdin, link, to_client, client_connection, tool_runs, served,
                   initialize_res, ops, clientRest>>

\* ClientBuilder::build with any strict flag and protocol version, a server
\* with any protocol version, on either client transport, not yet opened
InitClient ==
    /\ kind \in {"client_stdio", "client_sse"}
    /\ OutboundIdle /\ ServerIdle /\ SessionsIdle /\ EnvelopeIdle /\ SecureIdle /\ ConcIdle
    /\ strict \in BOOLEAN
    /\ protocol_version \in ProtocolVersions
    /\ server_version \in ProtocolVersions
    /\ initialize_res = "None"
    /\ client_op = IdleOp
    /\ link = <<>>
    /\ to_client = <<>>
    /\ notified = FALSE
    /\ ops = 0

NextClient ==
    \/ Open
    \/ Initialize
    \/ \E name \in CheckedMethods, tool \in {"echo", "nope"} : CheckedCall(name, tool)
    \/ \E method \in Methods, params \in GenericParams : GenericRequest(method, params)
    \/ ServerRead
    \/ ClientReceive
    \/ SendInitialized
    \/ PostAccepted

SpecClient == InitClient /\ [][NextClient]_allVars

\* ------------------------------------------------------------------------
\* Properties of the client session (checked under SpecClient)
\* ------------------------------------------------------------------------

\* the methods whose handlers check conn.initialized
GatedMethods == {"tools/list", "tools/call"}

SessionRequests ==
    {r \in Requests : r.id = 0 /\ r.params \in {NoParams, [shape |-> "object", name |-> "echo"]}}

\* the variables no step of the SSE server writes
sessionRest ==
    <<outboundVars, running, requests_in, send_calls, wire, clientVars, envelopeVars, secureVars,
      concVars>>

\* messages a session's channel holds before tx.send waits; stands for the
\* capacity of mpsc::channel(100) in create_session
MaxQueued == 1

\* the one Response frame posted to the message endpoint
PostedResponses == {JsonRpcResponse(0, "value", NoError)}

\* sse_handler returning the stream without having inserted the session
sse_handler_unregistered ==
    /\ Cardinality(streams) < MaxSessions
    /\ LET session_id == Cardinality(streams) + 1
       IN  /\ streams' = streams \cup {session_id}
           /\ ping' = [ping EXCEPT ![session_id] = [pc |-> "sleeping", periods |-> 0]]
    /\ UNCHANGED <<sessions, client_connection, frames_in, tool_runs, served, announced,
                   last_post, channel, events, sessionRest>>

\* sse_handler: create_session inserts a session holding a clone of the one
\* Protocol (and with it the one ClientConnection the handlers captured) and
\* the two ends of a fresh channel; the ping task is spawned; the response
\* carrying the stream is returned
sse_handler ==
    /\ Cardinality(sessions) < MaxSessions
    /\ LET session_id == Cardinality(sessions) + 1
       IN  /\ sessions' = sessions \cup {session_id}
           /\ streams' = streams \cup {session_id}
           /\ ping' = [ping EXCEPT ![session_id] = [pc |-> "sleeping", periods |-> 0]]
    /\ UNCHANGED <<client_connection, frames_in, tool_runs, served, announced, last_post,
                   channel, events, sessionRest>>

\* the client of a session goes away: the response stream is dropped; nothing
\* removes the session from ServerSseTransport.sessions
Disconnect(session_id) ==
    /\ session_id \in streams
    /\ streams' = streams \ {session_id}
    /\ UNCHANGED <<sessions, client_connection, frames_in, tool_runs, served, announced,
                   last_post, channel, events, ping, sessionRest>>

\* message_handler answering a POST for an unknown session like one without
\* a session id
HttpStatus_Merged(session_id, is_request, enqueued) ==
    IF session_id = 0 \/ session_id \notin sessions THEN 400
    ELSE IF is_request /\ ~enqueued THEN 500
    ELSE 202

\* the status message_handler answers with: BadRequest without a session id,
\* NotFound for one the map does not hold, InternalServerError when
\* send_response of a Request's Response returned Err, Accepted otherwise
HttpStatus(session_id, is_request, enqueued) ==
    IF session_id = 0 THEN 400
    ELSE IF session_id \notin sessions THEN 404
    ELSE IF is_request /\ ~enqueued THEN 500
    ELSE 202

\* self.tx.send(message).await returns Ok: the receiver exists, which it does
\* as long as a clone of the session does -- and the map keeps one
Enqueues(session_id) == session_id \in sessions

\* message_handler: without a session id or for an unknown one nothing else
\* happens; else the frame goes to the session's protocol, the Response to a
\* Request is sent on the session's channel (tx.send waits while the channel
\* is full), and the POST is answered
message_handler(session_id, frame) ==
    /\ frames_in < MaxServed
    /\ frames_in' = frames_in + 1
    /\ IF session_id = 0 \/ session_id \notin sessions
       THEN /\ last_post' = [NoPost EXCEPT !.session = session_id,
                                           !.status = HttpStatus(session_id, FALSE, FALSE)]
            /\ UNCHANGED <<client_connection, tool_runs, announced, channel>>
       ELSE IF frame \in PostedResponses
       THEN /\ handle_response(frame)
            /\ last_post' = [session |-> session_id, frame |-> "response", req |-> NoRequest,
                             resp |-> frame, status |-> HttpStatus(session_id, FALSE, TRUE)]
            /\ UNCHANGED <<client_connection, tool_runs, announced, channel>>
       ELSE IF frame.id = -1
       THEN /\ client_connection' = handle_notification(frame)
            /\ announced' = IF frame.method = "notifications/initialized"
                            THEN announced \cup {session_id} ELSE announced
            /\ last_post' = [session |-> session_id, frame |-> "notification", req |-> frame,
                             resp |-> NoResponse, status |-> HttpStatus(session_id, FALSE, TRUE)]
            /\ UNCHANGED <<tool_runs, channel>>
       ELSE \E is_error \in BOOLEAN :
              /\ HandlerEffects(frame, is_error)
              /\ Len(channel[session_id]) < MaxQueued
              /\ channel' = IF Enqueues(session_id)
                            THEN [channel EXCEPT ![session_id] = Append(@, "response")]
                            ELSE channel
              /\ last_post' = [session |-> session_id, frame |-> "request", req |-> frame,
                               resp |-> handle_request(frame, is_error),
                               status |-> HttpStatus(session_id, TRUE, Enqueues(session_id))]
              /\ UNCHANGED announced
    /\ UNCHANGED <<sessions, streams, served, events, ping, sessionRest>>

InitSessions ==
    /\ kind = "sse_session"
    /\ OutboundIdle /\ ServerIdle /\ ExtIdle

NextSessions ==
    \/ sse_handler
    \/ \E session_id \in SessionIds : Disconnect(session_id)
    \/ \E session_id \in 0..MaxSessions,
          frame \in SessionRequests \cup Notifications \cup PostedResponses :
          message_handler(session_id, frame)

SpecSessions == InitSessions /\ [][NextSessions]_allVars

\* C13: one connection record per accepted connection -- a tools/list posted
\* to a session that has not itself received notifications/initialized is
\* refused with "Client not initialized", whatever the other sessions did.
SessionIsolation ==
    (/\ last_post.frame = "request"
     /\ last_post.req.method = "tools/list"
     /\ last_post.session \notin announced)
       => /\ last_post.resp.result = "none"
          /\ last_post.resp.error.message = "Client not initialized"

\* C14: Client::initialize returns Ok only when the protocol version in the
\* server's InitializeResponse equals the client's configured one. On a
\* mismatch it returns an error, caches nothing (assert_initialized still
\* fails) and sends no notifications/initialized; on a match it caches the
\* response first, sends notifications/initialized next and returns the
\* response last.
VersionNegotiation ==
    LET init == client_op.name = "initialize"
        answered == client_op.answer.result = "initialize"
        match == InitializeResponse.protocol_version = protocol_version
    IN  /\ (init /\ client_op.pc = "done" /\ client_op.result.ok)
              => /\ match
                 /\ assert_initialized
                 /\ client_op.announce = "sent"
                 /\ notified
                 /\ client_op.result = Ok(client_op.answer)
        /\ (init /\ answered /\ ~match)
              => /\ client_op.pc = "done"
                 /\ client_op.result = Err("Unsupported protocol version")
                 /\ client_op.announce = "no"
        /\ ~match => (~assert_initialized /\ ~notified /\ ~client_connection.initialized)
        /\ (init /\ answered /\ match)
              => /\ assert_initialized
                 /\ client_op.pc \in {"notifying", "posted", "done"}
                 /\ client_op.pc = "notifying" <=> client_op.announce = "no"
                 /\ (client_op.pc = "done" /\ client_op.announce = "sent") => client_op.result.ok
        /\ (init /\ ~answered) => client_op.announce = "no"

\* the server answered initialize with a version the client is not configured
\* for: initialize() returned the error and nothing is cached
VersionNegotiationWitness ==
    /\ client_op.name = "initialize"
    /\ client_op.pc = "done"
    /\ client_op.answer.result = "initialize"
    /\ server_version = V2024_11_05
    /\ protocol_version = V2025_03_26
    /\ client_op.result = Err("Unsupported protocol version")
    /\ ~assert_initialized
    /\ client_connection.client_info = "Some"

\* C15: with strict mode on, a Client method other than initialize and open
\* (the six checked methods and the generic request) called while no
\* initialize() has returned Ok puts nothing on the transport (it fails with
\* "Not initialized" before it reaches the transport).
StrictGate ==
    (/\ strict
     /\ client_op.name \in CheckedMethods \cup {"request"}
     /\ client_op.method # "initialize"
     /\ ~client_op.after_notified)
       => ~client_op.sent

\* ------------------------------------------------------------------------
\* Envelope deserialization: serde_json::from_str::<JsonRpcMessage> on one
\* JSON object (SpecEnvelope)
\* ------------------------------------------------------------------------

\* top-level keys of one inbound JSON object
MaxKeys == 5

\* the keys a frame may carry; "extra" is a key no envelope struct declares
Fields == {"id", "method", "params", "result", "error", "jsonrpc", "extra"}

\* the fields of the three envelope structs, and those among them that have
\* no default: JsonRpcResponse and JsonRpcNotification are #[serde(default)],
\* JsonRpcRequest is not (its Option field params may still be left out)
ResponseFields == {"id", "result", "error", "jsonrpc"}
RequestFields == {"id", "method", "params", "jsonrpc"}
RequestRequired == {"id", "method", "jsonrpc"}
NotificationFields == {"method", "params", "jsonrpc"}

\* JSON objects with distinct keys, as the sequence of their keys
Envelopes ==
    {e \in UNION {[1..n -> Fields] : n \in 0..MaxKeys} :
        \A i, j \in DOMAIN e : e[i] = e[j] => i = j}

Keys(e) == {e[i] : i \in DOMAIN e}

RECURSIVE visit_map(_, _, _)
\* the derived visitor of a #[serde(deny_unknown_fields)] struct: it takes
\* the keys in wire order and fails on the first one the struct does not have
visit_map(keys, known, seen) ==
    IF keys = <<>> THEN [ok |-> TRUE, seen |-> seen]
    ELSE IF Head(keys) \notin known THEN [ok |-> FALSE, seen |-> seen]
    ELSE visit_map(Tail(keys), known, seen \cup {Head(keys)})

\* the derived Deserialize: after the visit, a field that was not seen and has
\* no default is a "missing field" error
deserialize_struct(keys, known, required) ==
    LET v == visit_map(keys, known, {})
    IN  v.ok /\ required \subseteq v.seen

\* JsonRpcVersion::default()
DefaultVersion == "2.0"

\* what from_str returned: the variant ("Err": no variant matched) and the
\* jsonrpc field of the envelope struct
Parsed(variant, jsonrpc) == [done |-> TRUE, variant |-> variant, jsonrpc |-> jsonrpc]

\* #[serde(untagged)] enum JsonRpcMessage: the variants are tried in the order
\* they are declared -- Response, Request, Notification -- and the first that
\* deserializes is the result; the frames carry "jsonrpc":"2.0" when they
\* carry the key
from_str(keys) ==
    IF deserialize_struct(keys, ResponseFields, {}) THEN Parsed("Response", DefaultVersion)
    ELSE IF deserialize_struct(keys, RequestFields, RequestRequired) THEN Parsed("Request", "2.0")
    ELSE IF deserialize_struct(keys, NotificationFields, {}) THEN Parsed("Notification", DefaultVersion)
    ELSE Parsed("Err", "")

\* a transport parses one frame it read
Deserialize ==
    /\ ~parsed.done
    /\ parsed' = from_str(envelope)
    /\ UNCHANGED <<envelope, outboundVars, inboundVars, clientVars, sessionVars, secureVars,
                   concVars>>

InitEnvelope ==
    /\ kind = "server_stdio"
    /\ OutboundIdle /\ ServerIdle /\ ClientIdle /\ SessionsIdle /\ SecureIdle /\ ConcIdle
    /\ envelope \in Envelopes
    /\ parsed = NotParsed

NextEnvelope == Deserialize

SpecEnvelope == InitEnvelope /\ [][NextEnvelope]_allVars

\* C18: envelope classification over every combination of present top-level
\* fields: id and method select Request, id without method Response, method
\* without id Notification; a frame whose fields all belong to the selected
\* variant's envelope deserializes as that variant, a frame with a field
\* outside it is rejected, and the order of the keys makes no difference.
EnvelopeClassification ==
    parsed.done =>
       LET K == Keys(envelope)
           selected == IF "id" \in K /\ "method" \in K THEN "Request"
                       ELSE IF "id" \in K THEN "Response"
                       ELSE IF "method" \in K THEN "Notification"
                       ELSE "none"
           within == CASE selected = "Request" -> RequestFields
                       [] selected = "Response" -> ResponseFields
                       [] selected = "Notification" -> NotificationFields
                       [] OTHER -> {}
       IN  /\ selected # "none" =>
                 parsed.variant = IF K \subseteq within THEN selected ELSE "Err"
           /\ \A e \in Envelopes : Keys(e) = K => from_str(e) = parsed

\* C19: a frame of any of the three variants that leaves out jsonrpc is
\* accepted and classified as the same frame with jsonrpc present is, and its
\* jsonrpc field reads "2.0".
JsonRpcDefaulted ==
    (parsed.done /\ "jsonrpc" \notin Keys(envelope))
       => LET with == from_str(Append(envelope, "jsonrpc"))
          IN  with.variant # "Err" =>
                 (parsed.variant = with.variant /\ parsed.jsonrpc = DefaultVersion)

\* ------------------------------------------------------------------------
\* Secure-value substitution: apply_secure_replacements (SpecSecure)
\* ------------------------------------------------------------------------

\* items of a JSON array handed to apply_secure_replacements
MaxItems == 1

JString(s) == Json("str", s, <<>>)
JArray(items) == Json("arr", "", [i \in DOMAIN items |-> [k |-> "", v |-> items[i]]])

\* an object with the keys K and the members f[k], kept in key order
JObject(K, f) ==
    LET ks == SelectSeq(KeyOrder, LAMBDA k : k \in K)
    IN  Json("obj", "", [i \in DOMAIN ks |-> [k |-> ks[i], v |-> f[ks[i]]]])

Arrays(S) == {JArray(items) : items \in UNION {[1..n -> S] : n \in 0..MaxItems}}
Objects(S) == UNION {{JObject(K, f) : f \in [K -> S]} : K \in SUBSET ObjKeys}

\* the JSON values applied to: scalars, and arrays and objects nested twice
Scalars == {JNull, JString("s")}
Nested == Scalars \cup Arrays(Scalars) \cup Objects(Scalars)
JsonValues == Nested \cup Arrays(Nested) \cup Objects(Nested)

\* the secure values Client.env may hold for a key
SecureValues == {Absent, SecureValue("static", "S"), SecureValue("env", "TOKEN")}

\* the replacement appending to the string it replaces
Replacement_Appending(secure_val, v) ==
    IF secure_val.source = "static" THEN v.s \o secure_val.arg
    ELSE IF environment[secure_val.arg].set THEN v.s \o environment[secure_val.arg].val
    ELSE v.s

\* match secure_val: Static(val) => val.clone(), Env(env_key) =>
\* env::var(env_key).unwrap_or_else(|_| v.as_str().unwrap().to_string())
Replacement(secure_val, v) ==
    IF secure_val.source = "static" THEN secure_val.arg
    ELSE IF environment[secure_val.arg].set THEN environment[secure_val.arg].val
    ELSE v.s

\* the substitutor walking the top-level object only
apply_secure_replacements_shallow(v, secure) ==
    IF v.t = "obj"
    THEN Json("obj", "",
              [i \in DOMAIN v.kids |->
                  [k |-> v.kids[i].k,
                   v |-> IF v.kids[i].v.t = "str" /\ secure[v.kids[i].k] # Absent
                         THEN JString(Replacement(secure[v.kids[i].k], v.kids[i].v))
                         ELSE v.kids[i].v]])
    ELSE v

RECURSIVE apply_secure_replacements(_, _)
\* apply_secure_replacements: in an object, a member that is a string and
\* whose key is in the map is replaced; every other member, and every item of
\* an array, is walked; anything else is cloned
apply_secure_replacements(v, secure) ==
    IF v.t = "obj"
    THEN Json("obj", "",
              [i \in DOMAIN v.kids |->
                  [k |-> v.kids[i].k,
                   v |-> IF v.kids[i].v.t = "str" /\ secure[v.kids[i].k] # Absent
                         THEN JString(Replacement(secure[v.kids[i].k], v.kids[i].v))
                         ELSE apply_secure_replacements(v.kids[i].v, secure)]])
    ELSE IF v.t = "arr"
    THEN Json("arr", "",
              [i \in DOMAIN v.kids |->
                  [k |-> "", v |-> apply_secure_replacements(v.kids[i].v, secure)]])
    ELSE v

\* Client::call_tool applies the substitutor to the arguments
ApplyFirst ==
    /\ applied = <<>>
    /\ applied' = <<apply_secure_replacements(value, secure_values)>>
    /\ UNCHANGED <<value, secure_values, environment, outboundVars, inboundVars,
                   clientVars, sessionVars, envelopeVars, concVars>>

\* the substitutor applied to its own result, configuration and environment
\* as they were
ApplyAgain ==
    /\ Len(applied) = 1
    /\ applied' = Append(applied, apply_secure_replacements(applied[1], secure_values))
    /\ UNCHANGED <<value, secure_values, environment, outboundVars, inboundVars,
                   clientVars, sessionVars, envelopeVars, concVars>>

InitSecure ==
    /\ kind = "client_stdio"
    /\ OutboundIdle /\ ServerIdle /\ ClientIdle /\ SessionsIdle /\ EnvelopeIdle /\ ConcIdle
    /\ value \in JsonValues
    /\ secure_values \in [ObjKeys -> SecureValues]
    /\ environment \in [EnvVars -> {NotSet, [set |-> TRUE, val |-> "E"]}]
    /\ applied = <<>>

NextSecure ==
    \/ ApplyFirst
    \/ ApplyAgain

SpecSecure == InitSecure /\ [][NextSecure]_allVars

\* C20: apply_secure_replacements is idempotent -- for every JSON value and
\* every configuration of static and environment secure values, with the
\* environment unchanged, applying it to the result of a first application
\* returns that result again.
SecureIdempotent ==
    Len(applied) = 2 => applied[2] = applied[1]

\* an object nested in an object had its "token" string replaced from the
\* environment, and the second application has been made
SecureIdempotentWitness ==
    /\ Len(applied) = 2
    /\ secure_values["token"] = SecureValue("env", "TOKEN")
    /\ environment["TOKEN"].set
    /\ value = JObject({"note"}, [k \in {"note"} |-> JObject({"token"}, [j \in {"token"} |-> JString("s")])])
    /\ applied[1] = JObject({"note"}, [k \in {"note"} |-> JObject({"token"}, [j \in {"token"} |-> JString("E")])])

DispatchMethods == {"tools/list", "tools/call"}

RequestFrame(i, m) == [type |-> "request", id |-> i, method |-> m]
ResponseFrame(i) == [type |-> "response", id |-> i, method |-> ""]

\* the variables no step of the dispatch writes (Open aside)
dispatchRest ==
    <<kind, slot, signals, call, issued, opened, stdin, session_endpoint, rx_open, inbound,
      last, client_connection, running, requests_in, send_calls, wire, tool_runs, served,
      clientVars, sessionVars, envelopeVars, secureVars, writerVars, orderVars, resolveVars,
      lateVars>>

\* the peer sends a Request
PeerRequest(m) ==
    /\ frames_in + Len(inbox) < MaxServed
    /\ inbox' = Append(inbox, RequestFrame(frames_in + Len(inbox), m))
    /\ UNCHANGED <<workers, handlers_guard, sessions_guard, ask, replied, request_id, pending,
                   stdin_lock, outbox, frames_in, dispatchRest>>

\* the peer answers a Request that was written to it
PeerAnswer(i) ==
    /\ frames_in + Len(inbox) < MaxServed
    /\ \E k \in DOMAIN outbox : outbox[k] = i
    /\ i \notin replied
    /\ replied' = replied \cup {i}
    /\ inbox' = Append(inbox, ResponseFrame(i))
    /\ UNCHANGED <<workers, handlers_guard, sessions_guard, ask, request_id, pending,
                   stdin_lock, outbox, frames_in, dispatchRest>>

\* the one task that runs the loop of open() on a stdio transport; on the SSE
\* server every POST is served by a task of its own
Reads(w) == kind = "sse_session" \/ w = "w1"

\* the next frame is taken: poll_message at the top of the loop of
\* ServerStdioTransport::open or of the reader task of
\* ClientStdioTransport::open, which the task reaches only after the arm for
\* the previous frame has returned; message_handler once it has the guard of
\* transport.sessions, which it keeps until it returns
Take(w) ==
    /\ ReaderActive
    /\ Reads(w)
    /\ workers[w].pc = "polling"
    /\ inbox # <<>>
    /\ IF kind = "sse_session"
       THEN sessions_guard = NoOwner /\ sessions_guard' = w
       ELSE UNCHANGED sessions_guard
    /\ workers' = [workers EXCEPT ![w] = [pc |-> "dispatching", frame |-> Head(inbox)]]
    /\ inbox' = Tail(inbox)
    /\ frames_in' = frames_in + 1
    /\ UNCHANGED <<handlers_guard, ask, replied, request_id, pending, stdin_lock, outbox,
                   dispatchRest>>

\* the arm of a frame has returned: the task is back at the top of its loop,
\* message_handler has returned and dropped the sessions guard
Polling(w) ==
    /\ workers' = [workers EXCEPT ![w] = [pc |-> "polling", frame |-> NoFrame]]
    /\ sessions_guard' = IF sessions_guard = w THEN NoOwner ELSE sessions_guard

\* Protocol::handle_request: request_handlers.lock().await, then the handler
\* is awaited with the guard alive
StartHandler(w) ==
    /\ workers[w].pc = "dispatching"
    /\ workers[w].frame.type = "request"
    /\ handlers_guard = NoOwner
    /\ handlers_guard' = w
    /\ workers' = [workers EXCEPT ![w].pc = "in_handler"]
    /\ UNCHANGED <<inbox, sessions_guard, ask, replied, request_id, pending, stdin_lock,
                   outbox, frames_in, dispatchRest>>

\* request() resolves for task t: the future returns and drops what it holds
\* (ClientStdioTransport::request: the stdin guard)
Resolved(t, outcome) ==
    /\ ask' = [ask EXCEPT ![t].outcome = outcome]
    /\ stdin_lock' = IF stdin_lock = t THEN NoOwner ELSE stdin_lock

\* the Message::Response arm: Protocol::handle_response hands the Response to
\* the waiter of its id, if the table still has it
DeliverResponse(w) ==
    /\ workers[w].pc = "dispatching"
    /\ workers[w].frame.type = "response"
    /\ LET i == workers[w].frame.id
       IN  IF i \in pending
           THEN /\ pending' = pending \ {i}
                /\ \E t \in Tasks : ask[t].id = i /\ Resolved(t, "response")
           ELSE UNCHANGED <<pending, ask, stdin_lock>>
    /\ Polling(w)
    /\ UNCHANGED <<inbox, handlers_guard, replied, request_id, outbox, frames_in,
                   dispatchRest>>

\* a task calls transport.request(): the application at any time, a worker
\* from inside the handler it runs; create_request, then the frame is written
\* (ClientStdioTransport: under the stdin guard, kept while it waits)
Ask(t) ==
    /\ ReaderActive
    /\ t \in Workers => workers[t].pc = "in_handler"
    /\ ask[t].outcome = "none"
    /\ request_id < MaxIds
    /\ IF kind = "client_stdio"
       THEN stdin_lock = NoOwner /\ stdin_lock' = t
       ELSE UNCHANGED stdin_lock
    /\ request_id' = request_id + 1
    /\ pending' = pending \cup {request_id}
    /\ outbox' = Append(outbox, request_id)
    /\ ask' = [ask EXCEPT ![t] = [id |-> request_id, outcome |-> "waiting"]]
    /\ UNCHANGED <<inbox, workers, handlers_guard, sessions_guard, replied, frames_in,
                   dispatchRest>>

\* timeout(options.timeout, rx) expires: cancel_response, synthetic Response
AskTimeout(t) ==
    /\ ask[t].outcome = "waiting"
    /\ pending' = pending \ {ask[t].id}
    /\ Resolved(t, "timeout")
    /\ UNCHANGED <<inbox, workers, handlers_guard, sessions_guard, replied, request_id,
                   outbox, frames_in, dispatchRest>>

\* the handler returns: handle_request returns and drops the handlers guard
FinishHandler(w) ==
    /\ workers[w].pc = "in_handler"
    /\ ask[w].outcome # "waiting"
    /\ handlers_guard' = NoOwner
    /\ workers' = [workers EXCEPT ![w].pc = "responding"]
    /\ UNCHANGED <<inbox, sessions_guard, ask, replied, request_id, pending, stdin_lock,
                   outbox, frames_in, dispatchRest>>

\* send_response writes the Response (ClientStdioTransport: once it has the
\* stdin guard), and the arm returns
Respond(w) ==
    /\ workers[w].pc = "responding"
    /\ kind = "client_stdio" => stdin_lock = NoOwner
    /\ Polling(w)
    /\ ask' = [ask EXCEPT ![w] = NotAsked]
    /\ UNCHANGED <<inbox, handlers_guard, replied, request_id, pending, stdin_lock, outbox,
                   frames_in, dispatchRest>>

InitDispatch ==
    /\ kind \in {"server_stdio", "client_stdio", "sse_session"}
    /\ OutboundIdle /\ ServerIdle /\ ExtIdle

NextDispatch ==
    \/ Open
    \/ \E m \in DispatchMethods : PeerRequest(m)
    \/ \E i \in IdSpace : PeerAnswer(i)
    \/ \E w \in Workers : Take(w)
    \/ \E w \in Workers : StartHandler(w)
    \/ \E w \in Workers : DeliverResponse(w)
    \/ \E t \in Tasks : Ask(t)
    \/ \E t \in Tasks : AskTimeout(t)
    \/ \E w \in Workers : FinishHandler(w)
    \/ \E w \in Workers : Respond(w)

SpecDispatch == InitDispatch /\ [][NextDispatch]_allVars

\* a handler is in progress, or its Response is being written
Busy(w) == workers[w].pc \in {"in_handler", "responding"}

\* C22: full duplex -- while the handler of an inbound Request is in progress
\* on a connection, a Response frame that has arrived for an outbound request
\* still waiting on that connection can be taken and dispatched (so it reaches
\* its waiter without the handler having to finish first).
FullDuplex ==
    (/\ \E w \in Workers : Busy(w)
     /\ inbox # <<>>
     /\ Head(inbox).type = "response"
     /\ \E t \in Tasks : ask[t] = [id |-> Head(inbox).id, outcome |-> "waiting"])
       => ENABLED (\E w \in Workers : Take(w))

\* C23: the dispatcher imposes no serialization on handlers -- while the
\* handler of one inbound Request is in progress, a second Request that has
\* arrived can be taken, so that its handler is in progress too.
NoHandlerSerialization ==
    (/\ \E w \in Workers : workers[w].pc = "in_handler"
     /\ inbox # <<>>
     /\ Head(inbox).type = "request")
       => ENABLED (\E w \in Workers : Take(w))

\* at most one handler is in progress at any time, and only its task is past
\* the top of the loop
OneHandlerAtATime ==
    /\ Cardinality({w \in Workers : workers[w].pc # "polling"}) <= 1
    /\ \A w \in Workers : workers[w].pc = "in_handler" <=> handlers_guard = w

\* a request() made by a handler never resolves with the peer's Response
HandlerNeverAnswered ==
    \A w \in Workers : ask[w].outcome # "response"

\* ------------------------------------------------------------------------
\* Concurrent senders on one stdio transport: request, send_notification and
\* send_response writing to the same pipe (SpecWriters)
\* ------------------------------------------------------------------------

\* sends started in a run
MaxSends == 3

SendOps == {"request", "send_notification", "send_response"}

\* one write_all call: the serialized message, or its newline
Chunk(t, n, part) == [task |-> t, n |-> n, part |-> part]

\* the variables no sender writes
writersRest ==
    <<outboundVars, inboundVars, clientVars, sessionVars, envelopeVars, secureVars,
      dispatchVars, orderVars, resolveVars, lateVars>>

\* the send takes one lock for all its writes: every send of
\* ClientStdioTransport (the stdin guard), and on ServerStdioTransport
\* send_notification and send_response (stdout.lock()); request of
\* ServerStdioTransport calls write_all on io::stdout() itself
HoldsLock(op) == kind = "client_stdio" \/ op # "request"

\* a task calls request, send_notification or send_response
Send(t, op) ==
    /\ senders[t].pc = "idle"
    /\ sends < MaxSends
    /\ sends' = sends + 1
    /\ senders' = [senders EXCEPT ![t] =
                     [op |-> op, pc |-> IF HoldsLock(op) THEN "locking" ELSE "body", n |-> sends]]
    /\ UNCHANGED <<stream, out_lock, writersRest>>

\* self.stdin.lock().await / stdout.lock()
Lock(t) ==
    /\ senders[t].pc = "locking"
    /\ out_lock = NoOwner
    /\ out_lock' = t
    /\ senders' = [senders EXCEPT ![t].pc = "body"]
    /\ UNCHANGED <<stream, sends, writersRest>>

\* a write_all call can write: no other task holds the lock of the stream
\* (Stdout::write_all takes it for the length of the call)
MayWrite(t) == out_lock \in {NoOwner, t}

\* write_all(serialized.as_bytes())
WriteBody(t) ==
    /\ senders[t].pc = "body"
    /\ MayWrite(t)
    /\ stream' = Append(stream, Chunk(t, senders[t].n, "body"))
    /\ senders' = [senders EXCEPT ![t].pc = "newline"]
    /\ UNCHANGED <<out_lock, sends, writersRest>>

\* write_all(b"\n") and flush; the send returns and drops its lock, except
\* ClientStdioTransport::request, which goes on to wait with the guard alive
WriteNewline(t) ==
    /\ senders[t].pc = "newline"
    /\ MayWrite(t)
    /\ stream' = Append(stream, Chunk(t, senders[t].n, "nl"))
    /\ IF kind = "client_stdio" /\ senders[t].op = "request"
       THEN /\ senders' = [senders EXCEPT ![t].pc = "waiting"]
            /\ UNCHANGED out_lock
       ELSE /\ senders' = [senders EXCEPT ![t] = IdleSender]
            /\ out_lock' = IF out_lock = t THEN NoOwner ELSE out_lock
    /\ UNCHANGED <<sends, writersRest>>

\* ClientStdioTransport::request returns (response or timeout): the stdin
\* guard is dropped
RequestReturns(t) ==
    /\ senders[t].pc = "waiting"
    /\ senders' = [senders EXCEPT ![t] = IdleSender]
    /\ out_lock' = NoOwner
    /\ UNCHANGED <<stream, sends, writersRest>>

InitWriters ==
    /\ kind \in {"server_stdio", "client_stdio"}
    /\ OutboundIdle /\ ServerIdle /\ ExtIdle

NextWriters ==
    \/ \E t \in Callers, op \in SendOps : Send(t, op)
    \/ \E t \in Callers : Lock(t)
    \/ \E t \in Callers : WriteBody(t)
    \/ \E t \in Callers : WriteNewline(t)
    \/ \E t \in Callers : RequestReturns(t)

SpecWriters == InitWriters /\ [][NextWriters]_allVars

\* C24: concurrent-send safety on the stdio transports -- under any
\* interleaving of request, send_notification and send_response calls on one
\* transport, the output is a sequence of whole messages each immediately
\* followed by its own newline: nothing is written between a message's
\* bytes and its newline.
WholeMessages ==
    \A i \in DOMAIN stream :
       /\ stream[i].part = "body" =>
             (i = Len(stream) \/ stream[i + 1] = [stream[i] EXCEPT !.part = "nl"])
       /\ stream[i].part = "nl" =>
             (i > 1 /\ stream[i - 1] = [stream[i] EXCEPT !.part = "body"])

\* on the client transport, whose sends all hold the stdin guard, the output
\* is whole messages
ClientWholeMessages == kind = "client_stdio" => WholeMessages

\* ------------------------------------------------------------------------
\* One direction of a connection: a peer sends messages one after the other,
\* the other end reads them with poll_message (SpecOrder)
\* ------------------------------------------------------------------------

\* messages sent in a run
MaxSent == 3

\* the n-th message sent, a Notification or a Response
Sent(n, type) == [n |-> n, type |-> type]

\* the variables no step of the direction writes
orderRest ==
    <<outboundVars, inboundVars, clientVars, sessionVars, envelopeVars, secureVars,
      dispatchVars, writerVars, resolveVars, lateVars>>

\* a send completes: the serialized message and its newline are in the pipe
\* (send_notification / send_response of the stdio transports), or the
\* message is in the session's channel (self.tx.send(message).await)
SendMessage(type) ==
    /\ Len(sent_log) < MaxSent
    /\ LET message == Sent(Len(sent_log) + 1, type)
       IN  /\ sent_log' = Append(sent_log, message)
           /\ pipe' = Append(pipe, message)
    /\ UNCHANGED <<buffered, observed, orderRest>>

\* the BufReader of the reading end (the Option<BufReader<ChildStdout>> that
\* poll_message takes and puts back, or the one behind io::stdin()) has no
\* whole line left and reads what the pipe holds, up to its capacity
Fill(k) ==
    /\ kind \in {"client_stdio", "server_stdio"}
    /\ buffered = <<>>
    /\ k \in 1..Len(pipe)
    /\ buffered' = SubSeq(pipe, 1, k)
    /\ pipe' = SubSeq(pipe, k + 1, Len(pipe))
    /\ UNCHANGED <<sent_log, observed, orderRest>>

\* read_line / rx.recv() returning the last line held instead of the first
read_line_last(lines) == lines[Len(lines)]

\* read_line: the bytes up to and including the first newline held;
\* rx.recv(): the oldest message of the channel
read_line(lines) == lines[1]

\* poll_message on a stdio transport: read_line, serde_json::from_str
PollMessage ==
    /\ kind \in {"client_stdio", "server_stdio"}
    /\ buffered # <<>>
    /\ observed' = Append(observed, read_line(buffered))
    /\ buffered' = Tail(buffered)
    /\ UNCHANGED <<sent_log, pipe, orderRest>>

\* the event stream of sse_handler: session.poll_message() returns the next
\* message of the channel and one `message` event is emitted for it
EmitMessage ==
    /\ kind = "sse_session"
    /\ pipe # <<>>
    /\ observed' = Append(observed, read_line(pipe))
    /\ pipe' = Tail(pipe)
    /\ UNCHANGED <<sent_log, buffered, orderRest>>

InitOrder ==
    /\ kind \in {"client_stdio", "server_stdio", "sse_session"}
    /\ OutboundIdle /\ ServerIdle /\ ExtIdle

NextOrder ==
    \/ \E type \in {"notification", "response"} : SendMessage(type)
    \/ \E k \in 1..MaxSent : Fill(k)
    \/ PollMessage
    \/ EmitMessage

SpecOrder == InitOrder /\ [][NextOrder]_allVars

\* C25: single-direction ordering -- messages one peer sends one after the
\* other are observed by the other peer in the same order, without loss or
\* duplication, on the stdio transports and on an SSE session's channel: what
\* has been observed, followed by what is still held by the reader and the
\* pipe, is exactly the sequence sent.
SingleDirectionOrder ==
    observed \o buffered \o pipe = sent_log

\* three messages were sent; the first two have been observed in order and
\* the third is still on its way
SingleDirectionOrderWitness ==
    /\ Len(sent_log) = 3
    /\ observed = SubSeq(sent_log, 1, 2)
    /\ sent_log[1].type # sent_log[2].type
    /\ buffered \o pipe = <<sent_log[3]>>

\* ------------------------------------------------------------------------
\* Client request() calls against a peer that may answer, stay silent, stop
\* reading or go away (SpecResolve)
\* ------------------------------------------------------------------------

\* request lines the pipe to the child holds before a write blocks
PipeCapacity == 1

\* the variables no step of a call writes
resolveRest ==
    <<kind, slot, signals, call, issued, opened, stdin, session_endpoint, rx_open, outbox,
      inbound, last, inboundVars, clientVars, sessionVars, envelopeVars, secureVars,
      dispatchVars, writerVars, orderVars, lateVars>>

\* request() returns for caller c; the future drops the stdin guard if it has it
Resolves(c, outcome) ==
    /\ rpc' = [rpc EXCEPT ![c] = [pc |-> "done", id |-> rpc[c].id, outcome |-> outcome]]
    /\ stdin_lock' = IF stdin_lock = c THEN NoOwner ELSE stdin_lock

\* request(): protocol.create_request(), the message is serialized
CallRequest(c) ==
    /\ rpc[c].pc \in {"idle", "done"}
    /\ request_id < MaxIds
    /\ request_id' = request_id + 1
    /\ pending' = pending \cup {request_id}
    /\ rpc' = [rpc EXCEPT ![c] = [pc |-> "sending", id |-> request_id, outcome |-> "none"]]
    /\ UNCHANGED <<stdin_lock, in_pipe, peer, resolveRest>>

\* ClientStdioTransport::request: stdin_arc.lock().await
LockStdin(c) ==
    /\ kind = "client_stdio"
    /\ rpc[c].pc = "sending"
    /\ stdin_lock = NoOwner
    /\ stdin_lock' = c
    /\ rpc' = [rpc EXCEPT ![c].pc = "writing"]
    /\ UNCHANGED <<request_id, pending, in_pipe, peer, resolveRest>>

\* spawn_blocking(write_all, write_all, flush).await??: the write returns once
\* the pipe has taken the line, fails when the child is gone, and otherwise
\* does not return; only then is timeout(options.timeout, rx) reached
WriteRequest(c) ==
    /\ kind = "client_stdio"
    /\ rpc[c].pc = "writing"
    /\ IF peer = "closed"
       THEN /\ Resolves(c, "error")
            /\ UNCHANGED in_pipe
       ELSE /\ in_pipe < PipeCapacity
            /\ in_pipe' = in_pipe + 1
            /\ rpc' = [rpc EXCEPT ![c].pc = "waiting"]
            /\ UNCHANGED stdin_lock
    /\ UNCHANGED <<request_id, pending, peer, resolveRest>>

\* ClientSseTransport::request: req_builder.send() is started
PostRequest(c) ==
    /\ kind = "client_sse"
    /\ rpc[c].pc = "sending"
    /\ rpc' = [rpc EXCEPT ![c].pc = "posting"]
    /\ UNCHANGED <<request_id, pending, stdin_lock, in_pipe, peer, resolveRest>>

\* req_builder.send().await? returns: with a success status (the wait for
\* the Response starts), with another status or a connection error (Err)
PostReturns(c, success) ==
    /\ kind = "client_sse"
    /\ rpc[c].pc = "posting"
    /\ IF success /\ peer = "up"
       THEN rpc' = [rpc EXCEPT ![c].pc = "waiting"] /\ UNCHANGED stdin_lock
       ELSE Resolves(c, "error")
    /\ UNCHANGED <<request_id, pending, in_pipe, peer, resolveRest>>

\* the child reads a line from its stdin
PeerReads ==
    /\ kind = "client_stdio"
    /\ peer = "up"
    /\ in_pipe > 0
    /\ in_pipe' = in_pipe - 1
    /\ UNCHANGED <<rpc, request_id, pending, stdin_lock, peer, resolveRest>>

\* the peer's Response arrives and handle_response hands it to the waiter
ResponseArrives(c) ==
    /\ peer = "up"
    /\ rpc[c].pc = "waiting"
    /\ rpc[c].id \in pending
    /\ pending' = pending \ {rpc[c].id}
    /\ Resolves(c, "response")
    /\ UNCHANGED <<request_id, in_pipe, peer, resolveRest>>

\* timeout(options.timeout, rx) expires: cancel_response, synthetic Response
TimerExpires(c) ==
    /\ rpc[c].pc = "waiting"
    /\ pending' = pending \ {rpc[c].id}
    /\ Resolves(c, "timeout")
    /\ UNCHANGED <<request_id, in_pipe, peer, resolveRest>>

\* the peer exits or closes the connection
PeerCloses ==
    /\ peer = "up"
    /\ peer' = "closed"
    /\ UNCHANGED <<rpc, request_id, pending, stdin_lock, in_pipe, resolveRest>>

InitResolve ==
    /\ kind \in {"client_stdio", "client_sse"}
    /\ OutboundIdle /\ ServerIdle /\ ExtIdle

NextResolve ==
    \/ \E c \in Callers : CallRequest(c)
    \/ \E c \in Callers : LockStdin(c)
    \/ \E c \in Callers : WriteRequest(c)
    \/ \E c \in Callers : PostRequest(c)
    \/ \E c \in Callers, success \in BOOLEAN : PostReturns(c, success)
    \/ PeerReads
    \/ \E c \in Callers : ResponseArrives(c)
    \/ \E c \in Callers : TimerExpires(c)
    \/ PeerCloses

\* the runtime schedules every task that can run and the timer fires; the
\* peer is under no obligation
SpecResolve ==
    /\ InitResolve
    /\ [][NextResolve]_allVars
    /\ \A c \in Callers :
          /\ WF_allVars(LockStdin(c))
          /\ WF_allVars(WriteRequest(c))
          /\ WF_allVars(PostRequest(c))
          /\ WF_allVars(TimerExpires(c))

\* C26: every client RPC eventually resolves -- under fair scheduling of the
\* timer, each request() call eventually returns a real response or a
\* structured error, whatever the peer does.
EveryRpcResolves ==
    \A c \in Callers : (rpc[c].pc \notin {"idle", "done"}) ~> (rpc[c].pc = "done")

\* a call that has reached timeout(options.timeout, rx) does return
ArmedRpcResolves ==
    \A c \in Callers : (rpc[c].pc = "waiting") ~> (rpc[c].pc = "done")

\* C27: handling an inbound Notification never produces a wire message and
\* never touches the pending-request table, whether its handler is
\* registered and succeeds, is registered and fails (its params do not
\* deserialize), or is not registered; with a failing or missing handler
\* the connection record and the rest of the dispatcher and connection state
\* stay as they were.
NotificationFrameEffect ==
    [][(served'.frame = "notification" /\ frames_in' = frames_in + 1)
          => LET n == served'.req
                 handled == /\ n.method = "notifications/initialized"
                            /\ n.params.shape \in {"absent", "null"}
             IN  /\ wire' = wire
                 /\ send_calls' = send_calls
                 /\ requests_in' = requests_in
                 /\ pending' = pending
                 /\ ~handled =>
                       /\ client_connection' = client_connection
                       /\ UNCHANGED <<running, tool_runs, request_id, slot, signals, rx_open>>]_allVars

\* after one answered Request, notifications/initialized with an object for
\* params was taken: the handler failed, nothing was written and the
\* connection is still not initialized
NotificationFrameEffectWitness ==
    /\ served.frame = "notification"
    /\ served.req.method = "notifications/initialized"
    /\ served.req.params.shape = "object"
    /\ ~client_connection.initialized
    /\ frames_in = 2
    /\ send_calls = 1
    /\ Len(wire) = 1

\* C28: the SSE POST endpoint answers each POST with exactly one status --
\* 400 when the sessionId parameter is missing, 404 when it names no session
\* of the map, 500 when the Response to a Request could not be enqueued on
\* the session's channel, 202 otherwise (the Request was handled and its
\* Response enqueued, or the Response or Notification was dispatched); on 400
\* and 404 no handler runs and nothing is enqueued.
PostStatuses ==
    [][frames_in' = frames_in + 1
          => LET p == last_post'
                 known == p.session \in sessions
                 enqueued == /\ known
                             /\ channel' = [channel EXCEPT ![p.session] = Append(@, "response")]
             IN  /\ p.status = 400 <=> p.session = 0
                 /\ p.status = 404 <=> (p.session # 0 /\ ~known)
                 /\ p.status = 500 <=> (known /\ p.frame = "request" /\ ~enqueued)
                 /\ p.status = 202 <=> (known /\ (p.frame = "request" => enqueued))
                 /\ p.frame # "request" => channel' = channel
                 /\ p.status \in {400, 404} =>
                       /\ p.frame = "none"
                       /\ UNCHANGED <<client_connection, tool_runs, announced, pending, sessions>>]_allVars

\* a Request posted to the first session was answered 202 and its Response
\* is on that session's channel; a POST naming a session the map does not
\* hold was then answered 404
PostStatusesWitness ==
    /\ sessions = {1}
    /\ last_post.session = 2
    /\ last_post.status = 404
    /\ channel[1] = <<"response">>
    /\ frames_in = 2

\* ------------------------------------------------------------------------
\* The event stream and the ping task of an SSE session (SpecStream)
\* ------------------------------------------------------------------------

\* the frames posted while the streams are watched
StreamFrames == {[id |-> 0, method |-> "tools/list", params |-> NoParams]}

\* messages posted while the streams are watched
MaxPosts == 1

\* periods of the ping interval that elapse in a run, over all sessions
MaxPeriods == 1

RECURSIVE PeriodsElapsed(_)
PeriodsElapsed(ids) ==
    IF ids = {} THEN 0
    ELSE LET s == CHOOSE x \in ids : TRUE
         IN  ping[s].periods + PeriodsElapsed(ids \ {s})

\* "event: endpoint\ndata: /message?sessionId={}\n\n"
EndpointEvent(session_id) ==
    [event |-> "endpoint", data |-> "/message?sessionId=" \o ToString(session_id)]

\* "event: message\ndata: {}\n\n" with the serialized message
MessageEvent(message) == [event |-> "message", data |-> message]

\* the first item of the stream: futures::stream::once(endpoint_info)
EmitEndpoint(session_id) ==
    /\ session_id \in streams
    /\ events[session_id] = <<>>
    /\ events' = [events EXCEPT ![session_id] = <<EndpointEvent(session_id)>>]
    /\ UNCHANGED <<sessions, streams, announced, last_post, channel, ping, client_connection,
                   frames_in, tool_runs, served, sessionRest>>

\* the chained unfold: get_session, then session.poll_message() returns the
\* next message of the channel and a `message` event is emitted; the stream
\* ends when the session is not found
EmitEvent(session_id) ==
    /\ session_id \in streams
    /\ events[session_id] # <<>>
    /\ IF session_id \in sessions
       THEN /\ channel[session_id] # <<>>
            /\ events' = [events EXCEPT ![session_id] =
                             Append(@, MessageEvent(Head(channel[session_id])))]
            /\ channel' = [channel EXCEPT ![session_id] = Tail(@)]
            /\ UNCHANGED streams
       ELSE /\ streams' = streams \ {session_id}
            /\ UNCHANGED <<events, channel>>
    /\ UNCHANGED <<sessions, announced, last_post, ping, client_connection, frames_in,
                   tool_runs, served, sessionRest>>

\* the ping task: sleep(15 s) is over; get_session finds the session and
\* send_notification("ping") is called, or does not and the loop breaks
PingWake(session_id) ==
    /\ ping[session_id].pc = "sleeping"
    /\ PeriodsElapsed(SessionIds) < MaxPeriods
    /\ ping' = [ping EXCEPT ![session_id] =
                  IF session_id \in sessions
                  THEN [pc |-> "sending", periods |-> @.periods + 1]
                  ELSE [pc |-> "stopped", periods |-> @.periods]]
    /\ UNCHANGED <<sessions, streams, announced, last_post, channel, events, client_connection,
                   frames_in, tool_runs, served, sessionRest>>

\* session.send_notification("ping", None).await returns: tx.send has put the
\* message on the channel once it had room (an Err is logged); the loop goes
\* back to sleep either way
PingEnqueue(session_id) ==
    /\ ping[session_id].pc = "sending"
    /\ Len(channel[session_id]) < MaxQueued
    /\ channel' = IF Enqueues(session_id)
                  THEN [channel EXCEPT ![session_id] = Append(@, "ping")]
                  ELSE channel
    /\ ping' = [ping EXCEPT ![session_id].pc = "sleeping"]
    /\ UNCHANGED <<sessions, streams, announced, last_post, events, client_connection,
                   frames_in, tool_runs, served, sessionRest>>

NextStream ==
    \/ sse_handler
    \/ \E session_id \in SessionIds : Disconnect(session_id)
    \/ \E session_id \in 0..MaxSessions, frame \in StreamFrames :
          frames_in < MaxPosts /\ message_handler(session_id, frame)
    \/ \E session_id \in SessionIds : EmitEndpoint(session_id)
    \/ \E session_id \in SessionIds : EmitEvent(session_id)
    \/ \E session_id \in SessionIds : PingWake(session_id)
    \/ \E session_id \in SessionIds : PingEnqueue(session_id)

SpecStream == InitSessions /\ [][NextStream]_allVars

\* C29: on every SSE connection the first event emitted is the `endpoint`
\* event carrying /message?sessionId=<id> with the connection's own session
\* id; it is emitted once, before any `message` event; the session is in the
\* session map when it is emitted, and a POST to an advertised endpoint is
\* never answered 404.
EndpointFirst ==
    /\ [](\A s \in SessionIds :
             events[s] # <<>> =>
                /\ events[s][1] = [event |-> "endpoint",
                                   data |-> "/message?sessionId=" \o ToString(s)]
                /\ \A i \in 2..Len(events[s]) : events[s][i].event = "message"
                /\ s \in sessions)
    /\ [][(/\ frames_in' = frames_in + 1
           /\ last_post'.session \in SessionIds
           /\ events[last_post'.session] # <<>>)
             => last_post'.status # 404]_allVars

\* the second connection's stream has emitted its endpoint event and then a
\* message event, and a POST to its endpoint was answered 202
EndpointFirstWitness ==
    /\ Len(events[2]) = 2
    /\ events[2][1].data = "/message?sessionId=2"
    /\ events[2][2].event = "message"
    /\ last_post.session = 2
    /\ last_post.status = 202

\* C30: the ping task enqueues a ping on its session's channel at every
\* period, and a ping that cannot be enqueued -- the channel is full and the
\* stream that would drain it is gone -- terminates the session: it is no
\* longer in the session map and the ping task has stopped.
PingOrTerminate ==
    \A s \in SessionIds :
       (/\ ping[s].pc = "sending"
        /\ Len(channel[s]) = MaxQueued
        /\ s \notin streams)
          => (s \notin sessions /\ ping[s].pc = "stopped")

\* a session, once created, stays in the map, and its ping task never stops
SessionsNeverEnd ==
    \A s \in SessionIds :
       ping[s].pc # "none" => (s \in sessions /\ ping[s].pc # "stopped")

\* ------------------------------------------------------------------------
\* The session map of the SSE server under its mutex: message_handler,
\* create_session and get_session step by step (SpecMap)
\* ------------------------------------------------------------------------

\* the variables no step on the session map writes
mapRest ==
    <<outboundVars, inboundVars, clientVars, envelopeVars, secureVars, inbox, workers,
      handlers_guard, ask, replied, writerVars, orderVars, resolveVars, announced, last_post,
      loopVars, wireVars, sharedVars>>

\* message_handler, `let sessions = transport.sessions.lock().await` and
\* sessions.get(session_id): a session that is not found is answered 404 and
\* the guard dropped; for one that is found the guard stays alive
PostLock(p, session_id) ==
    /\ posts[p].pc = "idle"
    /\ sessions_guard = NoOwner
    /\ IF session_id \in sessions
       THEN /\ posts' = [posts EXCEPT ![p] = [pc |-> "handling", session |-> session_id,
                                               status |-> 0]]
            /\ sessions_guard' = p
       ELSE /\ posts' = [posts EXCEPT ![p] =
                           [pc |-> "done", session |-> session_id,
                            status |-> HttpStatus(session_id, FALSE, FALSE)]]
            /\ UNCHANGED sessions_guard
    /\ UNCHANGED <<mapRest, sessions, streams, channel, events, ping, cursor>>

\* message_handler, Request arm: transport.protocol.handle_request(request).await
\* has returned
PostHandled(p) ==
    /\ posts[p].pc = "handling"
    /\ posts' = [posts EXCEPT ![p].pc = "sending"]
    /\ UNCHANGED <<mapRest, sessions, streams, channel, events, ping, cursor, sessions_guard>>

\* message_handler, Request arm: transport.send_response(..).await returns
\* once the channel has room; the status is answered and the guard dropped
PostSend(p) ==
    /\ posts[p].pc = "sending"
    /\ sessions_guard = p
    /\ LET session_id == posts[p].session
       IN  /\ Len(channel[session_id]) < MaxQueued
           /\ channel' = IF Enqueues(session_id)
                         THEN [channel EXCEPT ![session_id] = Append(@, "response")]
                         ELSE channel
           /\ posts' = [posts EXCEPT ![p].pc = "done",
                                     ![p].status = HttpStatus(session_id, TRUE,
                                                              Enqueues(session_id))]
    /\ sessions_guard' = NoOwner
    /\ UNCHANGED <<mapRest, sessions, streams, events, ping, cursor>>

\* sse_handler: create_session takes the guard of the map to insert
Connect ==
    /\ sessions_guard = NoOwner
    /\ sse_handler

\* the ping task: get_session takes the guard of the map
PingGetSession(session_id) ==
    /\ sessions_guard = NoOwner
    /\ PingWake(session_id)

\* the unfold of the event stream: transport.get_session(&session_id).await
StreamGetSession(session_id) ==
    /\ session_id \in streams
    /\ events[session_id] # <<>>
    /\ cursor[session_id] = "get_session"
    /\ sessions_guard = NoOwner
    /\ cursor' = [cursor EXCEPT ![session_id] =
                    IF session_id \in sessions THEN "poll_message" ELSE "ended"]
    /\ UNCHANGED <<mapRest, sessions, streams, channel, events, ping, posts, sessions_guard>>

\* the unfold of the event stream: session.poll_message().await returns the
\* next message of the channel, which is emitted as a `message` event
StreamRecv(session_id) ==
    /\ session_id \in streams
    /\ cursor[session_id] = "poll_message"
    /\ channel[session_id] # <<>>
    /\ events' = [events EXCEPT ![session_id] =
                     Append(@, MessageEvent(Head(channel[session_id])))]
    /\ channel' = [channel EXCEPT ![session_id] = Tail(@)]
    /\ cursor' = [cursor EXCEPT ![session_id] = "get_session"]
    /\ UNCHANGED <<mapRest, sessions, streams, ping, posts, sessions_guard>>

NextMap ==
    \/ Connect
    \/ \E p \in Posters, session_id \in SessionIds : PostLock(p, session_id)
    \/ \E p \in Posters : PostHandled(p)
    \/ \E p \in Posters : PostSend(p)
    \/ \E session_id \in SessionIds : EmitEndpoint(session_id)
    \/ \E session_id \in SessionIds : StreamGetSession(session_id)
    \/ \E session_id \in SessionIds : StreamRecv(session_id)
    \/ \E session_id \in SessionIds : PingGetSession(session_id)
    \/ \E session_id \in SessionIds : PingEnqueue(session_id)

SpecMap == InitSessions /\ [][NextMap]_allVars

\* C31: when a session's channel is full and the POST handler waits for room
\* in it, the session's event stream, being polled, can take its next step
\* (and so drains the channel); the stream and the producer never wait on
\* each other.
BackpressureLive ==
    \A p \in Posters :
       LET s == posts[p].session
       IN  (/\ posts[p].pc = "sending"
            /\ Len(channel[s]) = MaxQueued
            /\ s \in streams)
              => ENABLED (EmitEndpoint(s) \/ StreamGetSession(s) \/ StreamRecv(s))

\* a stream that has reached poll_message does drain a full channel
StreamInRecvDrains ==
    \A s \in SessionIds :
       (s \in streams /\ cursor[s] = "poll_message" /\ channel[s] # <<>>)
          => ENABLED StreamRecv(s)

\* C39: while message_handler is running a request posted for session A, or
\* waits for room in A's channel, a POST for another registered session B can
\* be taken up, B's stream can go on emitting its queued messages, and a new
\* SSE connection can be registered.
SessionsIndependent ==
    \A p \in Posters, b \in SessionIds :
       (/\ posts[p].pc \in {"handling", "sending"}
        /\ posts[p].session # b
        /\ b \in sessions)
          => /\ \A q \in Posters : posts[q].pc = "idle" => ENABLED PostLock(q, b)
             /\ (b \in streams /\ events[b] # <<>> /\ channel[b] # <<>>)
                   => ENABLED (StreamGetSession(b) \/ StreamRecv(b))
             /\ Cardinality(streams) < MaxSessions => ENABLED Connect

\* whoever holds the guard of the session map is inside message_handler
GuardHeldByHandler ==
    \A p \in Posters : posts[p].pc \in {"handling", "sending"} <=> sessions_guard = p

\* C32: the session map follows the connections: a session whose stream has
\* ended is no longer in the map (a POST for it is then answered 404), its
\* ping task is not running, and the map never holds more sessions than there
\* are open SSE connections.
MapFollowsConnections ==
    /\ \A s \in SessionIds :
          s \notin streams => (s \notin sessions /\ ping[s].pc \in {"none", "stopped"})
    /\ Cardinality(sessions) <= Cardinality(streams)

\* a POST for a session whose stream has ended is not answered 404
PostAfterDisconnect ==
    [][(/\ frames_in' = frames_in + 1
        /\ last_post'.session \in SessionIds
        /\ events[last_post'.session] # <<>>
        /\ last_post'.session \notin streams)
          => last_post'.status = 202]_allVars

\* ------------------------------------------------------------------------
\* The read loop of the stdio transports: ServerStdioTransport::open and the
\* reader task ClientStdioTransport::open spawns (SpecLoop)
\* ------------------------------------------------------------------------

\* lines the peer writes in a run
MaxLines == 3

\* lines that serde_json::from_str turns into a Message
MessageLines == {"request", "notification", "response"}

\* a line holding only "\n", and a line that is not a JSON-RPC message
BadLines == {"blank", "malformed"}

\* the messages among the lines, in order
RECURSIVE Messages(_)
Messages(lines) ==
    IF lines = <<>> THEN <<>>
    ELSE IF Head(lines) \in MessageLines THEN <<Head(lines)>> \o Messages(Tail(lines))
    ELSE Messages(Tail(lines))

\* the variables no step of the read loop writes
loopRest ==
    <<outboundVars, inboundVars, clientVars, sessionVars, envelopeVars, secureVars,
      dispatchVars, writerVars, orderVars, resolveVars, mapVars, wireVars, sharedVars>>

\* the peer writes one more line
WriteLine(line) ==
    /\ ending = "open"
    /\ Len(script) < MaxLines
    /\ script' = Append(script, line)
    /\ unread' = Append(unread, line)
    /\ UNCHANGED <<ending, loop_pc, dispatched, last_line, loopRest>>

\* the peer closes its end (read_line returns 0 bytes from then on), or the
\* input becomes unreadable (read_line returns Err from then on)
EndInput(how) ==
    /\ ending = "open"
    /\ ending' = how
    /\ UNCHANGED <<script, unread, loop_pc, dispatched, last_line, loopRest>>

\* the loop left by `break` or by `?`
LoopLeft(ok) ==
    IF kind = "server_stdio" THEN (IF ok THEN "returned_ok" ELSE "returned_err") ELSE "ended"

\* poll_message returns Ok(Some(message)) and the message is dispatched:
\* handle_request and send_response, handle_notification or handle_response.
\* ServerStdioTransport::open returns through `?` when send_response fails;
\* the client's reader task discards that result
PollSome ==
    /\ loop_pc = "polling"
    /\ unread # <<>>
    /\ Head(unread) \in MessageLines
    /\ unread' = Tail(unread)
    /\ last_line' = Head(unread)
    /\ dispatched' = Append(dispatched, Head(unread))
    /\ \E written \in BOOLEAN :
          loop_pc' = IF Head(unread) = "request" /\ ~written /\ kind = "server_stdio"
                     THEN LoopLeft(FALSE) ELSE "polling"
    /\ UNCHANGED <<script, ending, loopRest>>

\* poll_message returns Ok(None): read_line has returned no byte at all
PollNone ==
    /\ loop_pc = "polling"
    /\ unread = <<>>
    /\ ending = "eof"
    /\ last_line' = "eof"
    /\ loop_pc' = LoopLeft(TRUE)
    /\ UNCHANGED <<script, unread, ending, dispatched, loopRest>>

\* poll_message returns Err: serde_json::from_str fails on the line ("\n"
\* included: the line is not empty), or read_line itself fails. The server's
\* loop goes to its Err arm, the client's reader task breaks
PollErr ==
    /\ loop_pc = "polling"
    /\ IF unread # <<>>
       THEN /\ Head(unread) \in BadLines
            /\ unread' = Tail(unread)
            /\ last_line' = Head(unread)
       ELSE /\ ending = "unreadable"
            /\ last_line' = "unreadable"
            /\ UNCHANGED unread
    /\ loop_pc' = IF kind = "server_stdio" THEN "logging" ELSE LoopLeft(FALSE)
    /\ UNCHANGED <<script, ending, dispatched, loopRest>>

\* ServerStdioTransport::open, Err arm: tracing::error!, then the next turn
LogError ==
    /\ loop_pc = "logging"
    /\ loop_pc' = "polling"
    /\ UNCHANGED <<script, unread, ending, dispatched, last_line, loopRest>>

InitLoop ==
    /\ kind \in {"server_stdio", "client_stdio"}
    /\ OutboundIdle /\ ServerIdle /\ ExtIdle

StepLoop == PollSome \/ PollNone \/ PollErr \/ LogError

NextLoop ==
    \/ \E line \in MessageLines \cup BadLines : WriteLine(line)
    \/ \E how \in {"eof", "unreadable"} : EndInput(how)
    \/ PollSome
    \/ PollNone
    \/ PollErr
    \/ LogError

SpecLoop == InitLoop /\ [][NextLoop]_allVars

\* the same loop, scheduled: a turn of the loop that can be taken is taken
SpecLoopLive == SpecLoop /\ WF_allVars(StepLoop)

\* the loop is running
Looping == loop_pc \in {"polling", "logging"}

\* C33: ServerStdioTransport::open reads lines in order; end of file and an
\* empty line both end the loop, which then returns Ok; by then every message
\* line read before has been dispatched, in order.
OpenLoopEnds ==
    kind = "server_stdio" =>
       /\ last_line \in {"eof", "blank"} => loop_pc = "returned_ok"
       /\ loop_pc = "returned_ok" => dispatched = Messages(script)
       /\ \E n \in 0..Len(script) : dispatched = Messages(SubSeq(script, 1, n))

\* the same without the empty line: only end of file ends the loop
OpenLoopEndsAtEof ==
    kind = "server_stdio" =>
       /\ last_line = "eof" => loop_pc = "returned_ok"
       /\ loop_pc = "returned_ok" => (dispatched = Messages(script) /\ last_line = "eof")
       /\ \E n \in 0..Len(script) : dispatched = Messages(SubSeq(script, 1, n))

\* ServerStdioTransport::open terminates once the input is exhausted or
\* unreadable
OpenTerminates ==
    (kind = "server_stdio" /\ ending # "open") ~> ~Looping

\* C40: a malformed line does not stop either read loop: once the input has
\* ended and the loop has stopped without a write error, every message line
\* of the input, those after a malformed line included, has been dispatched.
MalformedLineSkipped ==
    (ending = "eof" /\ loop_pc \in {"returned_ok", "ended"} /\ last_line # "unreadable")
       => dispatched = Messages(script)

\* the same for ServerStdioTransport::open alone
ServerSkipsMalformed ==
    (kind = "server_stdio" /\ ending = "eof" /\ loop_pc = "returned_ok")
       => dispatched = Messages(script)

\* the client's reader task never reads past a line that is not a message
ClientStopsAtMalformed ==
    (kind = "client_stdio" /\ last_line \in BadLines) => loop_pc = "ended"

\* ------------------------------------------------------------------------
\* Wire types through serde_json: Serialize and Deserialize as derived for
\* the envelope structs and the types of types.rs (SpecWire)
\* ------------------------------------------------------------------------

\* a field of a struct: its name, its key on the wire (rename_all =
\* "camelCase", or rename), and what it is: "required", "option" (an
\* Option<T> with skip_serializing_if = "Option::is_none") or "option_json"
\* (the same with T = serde_json::Value)
Field(name, key, is) == [name |-> name, key |-> key, is |-> is]

\* the structs serialized and deserialized here, field by field
Schema(type) ==
    CASE type = "JsonRpcRequest" ->
            {Field("id", "id", "required"), Field("method", "method", "required"),
             Field("params", "params", "option_json"),
             Field("jsonrpc", "jsonrpc", "required")}
      [] type = "JsonRpcNotification" ->
            {Field("method", "method", "required"),
             Field("params", "params", "option_json"),
             Field("jsonrpc", "jsonrpc", "required")}
      [] type = "JsonRpcResponse" ->
            {Field("id", "id", "required"), Field("result", "result", "option_json"),
             Field("error", "error", "option"), Field("jsonrpc", "jsonrpc", "required")}
      [] type = "JsonRpcError" ->
            {Field("code", "code", "required"), Field("message", "message", "required"),
             Field("data", "data", "option_json")}
      [] type = "ServerCapabilities" ->
            {Field("tools", "tools", "option"),
             Field("experimental", "experimental", "option_json"),
             Field("logging", "logging", "option_json"),
             Field("completions", "completions", "option_json"),
             Field("prompts", "prompts", "option"),
             Field("resources", "resources", "option")}
      [] type = "ToolAnnotations" ->
            {Field("title", "title", "option"),
             Field("read_only_hint", "readOnlyHint", "option"),
             Field("destructive_hint", "destructiveHint", "option"),
             Field("idempotent_hint", "idempotentHint", "option"),
             Field("open_world_hint", "openWorldHint", "option")}
      [] OTHER ->
            {Field("content_type", "type", "required"), Field("text", "text", "required"),
             Field("annotations", "annotations", "option")}

WireTypes ==
    {"JsonRpcRequest", "JsonRpcNotification", "JsonRpcResponse", "JsonRpcError",
     "ServerCapabilities", "ToolAnnotations", "TextContent"}

\* what a field may hold: a required field a value; an Option None or
\* Some(value); an Option<serde_json::Value> also Some(Value::Null)
Holds(field) ==
    CASE field.is = "required" -> {"Some"}
      [] field.is = "option" -> {"None", "Some"}
      [] OTHER -> {"None", "Some", "SomeNull"}

\* the values of a struct: one pair for each of its fields
ValuesOf(type) ==
    {v \in SUBSET (UNION {{<<f.name, h>> : h \in Holds(f)} : f \in Schema(type)}) :
        \A f \in Schema(type) : Cardinality({p \in v : p[1] = f.name}) = 1}

\* what the field holds in the value
Held(v, name) == (CHOOSE p \in v : p[1] = name)[2]

\* the derived Serialize: a field is skipped when skip_serializing_if says so
\* (the Option is None); Some(Value::Null) is written as null
to_value(type, v) ==
    {<<f.key, IF Held(v, f.name) = "SomeNull" THEN "null" ELSE "value">> :
        f \in {g \in Schema(type) : Held(v, g.name) # "None"}}

\* the derived Deserialize: a key that is missing leaves an Option None, and
\* so does a key holding null (Option<T>::deserialize visits none on null)
from_value(type, json) ==
    {<<f.name, IF \E p \in json : p[1] = f.key /\ p[2] = "value" THEN "Some" ELSE "None">> :
        f \in Schema(type)}

\* the variables no step on a wire value writes
wireRest ==
    <<outboundVars, inboundVars, clientVars, sessionVars, envelopeVars, secureVars,
      dispatchVars, writerVars, orderVars, resolveVars, mapVars, loopVars, sharedVars>>

\* a value of one of the structs is built
BuildValue(type, v) ==
    /\ wire_pc = "none"
    /\ wire_type' = type
    /\ wire_value' = v
    /\ wire_pc' = "built"
    /\ UNCHANGED <<wire_json, wire_back, wireRest>>

\* serde_json::to_string / to_value of it
SerializeValue ==
    /\ wire_pc = "built"
    /\ wire_json' = to_value(wire_type, wire_value)
    /\ wire_pc' = "serialized"
    /\ UNCHANGED <<wire_type, wire_value, wire_back, wireRest>>

\* serde_json::from_str / from_value of what was written
DeserializeValue ==
    /\ wire_pc = "serialized"
    /\ wire_back' = from_value(wire_type, wire_json)
    /\ wire_pc' = "deserialized"
    /\ UNCHANGED <<wire_type, wire_value, wire_json, wireRest>>

InitWire ==
    /\ kind = "server_stdio"
    /\ OutboundIdle /\ ServerIdle /\ ExtIdle

NextWire ==
    \/ \E type \in WireTypes : \E v \in ValuesOf(type) : BuildValue(type, v)
    \/ SerializeValue
    \/ DeserializeValue

SpecWire == InitWire /\ [][NextWire]_allVars

\* C34: omit-if-absent for every wire type: a field that is None has no key
\* in the serialized object, no key of an absent field holds null, and the
\* object deserializes to the value that was serialized.
OmitIfAbsentRoundTrip ==
    /\ wire_pc \in {"serialized", "deserialized"} =>
          \A f \in Schema(wire_type) :
             Held(wire_value, f.name) = "None" => ~\E p \in wire_json : p[1] = f.key
    /\ wire_pc = "deserialized" => wire_back = wire_value

\* the first half alone: None is left out, and a default ServerCapabilities
\* serializes to the empty object
OmitIfAbsent ==
    wire_pc \in {"serialized", "deserialized"} =>
       /\ \A f \in Schema(wire_type) :
             Held(wire_value, f.name) = "None" <=> ~\E p \in wire_json : p[1] = f.key
       /\ (\A f \in Schema(wire_type) : Held(wire_value, f.name) = "None") => wire_json = {}

\* the round trip of a value none of whose fields is Some(Value::Null)
RoundTripWithoutNull ==
    (wire_pc = "deserialized" /\ ~\E p \in wire_value : p[2] = "SomeNull")
       => wire_back = wire_value

\* ------------------------------------------------------------------------
\* Outbound requests of the SSE server: every ServerSseTransportSession is
\* created with self.protocol.clone() (SpecShared)
\* ------------------------------------------------------------------------

\* a handler holds the transport of one session and is about to call its
\* request()
ChooseSession(c, session_id) ==
    /\ call[c].pc = "idle"
    /\ via[c] = 0
    /\ session_id \in sessions
    /\ via' = [via EXCEPT ![c] = session_id]
    /\ UNCHANGED <<outboundVars, inboundVars, clientVars, sessionVars, envelopeVars,
                   secureVars, dispatchVars, writerVars, orderVars, resolveVars, mapVars,
                   loopVars, wireVars>>

\* ServerSseTransportSession::request: self.protocol.create_request()
SessionNewId(c) ==
    /\ via[c] # 0
    /\ NewMessageId(c)

\* message_handler for a POST that carries a Response: sessions.get, then
\* transport.protocol.handle_response(response), answered Accepted
PostedResponse(session_id, r) ==
    /\ inbound < MaxInbound
    /\ inbound' = inbound + 1
    /\ IF session_id \in sessions
       THEN /\ handle_response(r)
            /\ last' = [op |-> "handle_response", id |-> r.id, hit |-> r.id \in pending]
       ELSE UNCHANGED <<pending, signals, slot, last>>
    /\ last_post' = [session |-> session_id, frame |-> "response", req |-> NoRequest,
                     resp |-> r,
                     status |-> HttpStatus(session_id, FALSE, session_id \in sessions)]
    /\ UNCHANGED <<kind, request_id, call, issued, transportVars, outbox, inboundVars,
                   clientVars, sessions, streams, announced, channel, events, ping,
                   envelopeVars, secureVars, concVars>>

NextShared ==
    \/ sse_handler
    \/ \E c \in Callers, session_id \in SessionIds : ChooseSession(c, session_id)
    \/ \E c \in Callers : SessionNewId(c)
    \/ \E c \in Callers : CreateRequest(c)
    \/ \E c \in Callers : SessionSend(c)
    \/ \E session_id \in SessionIds, r \in PeerResponses : PostedResponse(session_id, r)
    \/ \E c \in Callers : AwaitResponse(c)

SpecShared == InitSessions /\ [][NextShared]_allVars

\* C35: a Response posted to one session's endpoint leaves the outbound
\* requests issued through the other sessions alone: their pending entries
\* stay, and nothing is delivered to their waiters, whatever id it carries.
OutboundIsolation ==
    [][(/\ inbound' = inbound + 1
        /\ last_post'.frame = "response")
          => \A c \in Callers :
                (/\ via[c] \notin {0, last_post'.session}
                 /\ call[c].pc \in {"created", "waiting"})
                   => /\ (call[c].id \in pending => call[c].id \in pending')
                      /\ slot'[call[c].id] = slot[call[c].id]]_allVars

\* the same Response posted to the session the request was issued through
\* does resolve it
OwnSessionResolves ==
    [][(/\ inbound' = inbound + 1
        /\ last_post'.frame = "response"
        /\ last_post'.status = 202)
          => \A c \in Callers :
                (/\ via[c] = last_post'.session
                 /\ call[c].pc = "waiting"
                 /\ call[c].id = last_post'.resp.id
                 /\ call[c].id \in pending)
                   => (call[c].id \notin pending' /\ slot'[call[c].id] = last_post'.resp)]_allVars

\* one table of pending requests for all sessions: the ids of the requests
\* issued through different sessions come from one counter
OneCounter ==
    \A c, d \in Callers :
       (c # d /\ call[c].pc # "idle" /\ call[d].pc # "idle") => call[c].id # call[d].id

\* ------------------------------------------------------------------------
\* Inbound JSON objects against the table of pending requests: from_str,
\* then the Response arm of the read loop (SpecInbound)
\* ------------------------------------------------------------------------

\* the keys of the objects the peer sends here
InboundKeys == {"id", "result", "error", "jsonrpc", "method"}

\* the objects: no key, one key, or two keys in either order
InboundObjects ==
    {<<>>} \cup {<<a>> : a \in InboundKeys}
           \cup {<<p[1], p[2]>> : p \in {q \in InboundKeys \X InboundKeys : q[1] # q[2]}}

\* RequestId::default(), which #[serde(default)] on JsonRpcResponse gives
\* the id field when the object has no id key
DefaultRequestId == 0

\* the JsonRpcResponse from_str builds from the object, i being the number
\* under its id key
ResponseOf(keys, i) ==
    JsonRpcResponse(IF "id" \in Keys(keys) THEN i ELSE DefaultRequestId,
                    IF "result" \in Keys(keys) THEN "value" ELSE "none",
                    IF "error" \in Keys(keys)
                    THEN JsonRpcError(InternalError, "peer error") ELSE NoError)

\* the read loop takes one object from the peer: poll_message deserializes
\* it, and a Message::Response goes to handle_response
ReceiveObject(keys, i) ==
    /\ inbound < MaxInbound
    /\ ReaderActive
    /\ inbound' = inbound + 1
    /\ envelope' = keys
    /\ parsed' = from_str(keys)
    /\ IF from_str(keys).variant = "Response"
       THEN /\ handle_response(ResponseOf(keys, i))
            /\ last' = [op |-> "handle_response", id |-> ResponseOf(keys, i).id,
                        hit |-> ResponseOf(keys, i).id \in pending]
       ELSE UNCHANGED <<pending, signals, slot, last>>
    /\ UNCHANGED <<kind, request_id, call, issued, transportVars, outbox, inboundVars,
                   clientVars, sessionVars, secureVars, concVars>>

InitInbound ==
    /\ kind \in {"client_stdio", "server_stdio"}
    /\ OutboundIdle /\ ServerIdle /\ ExtIdle

NextInbound ==
    \/ Open
    \/ \E c \in Callers : NewMessageId(c)
    \/ \E c \in Callers : CreateRequest(c)
    \/ \E c \in Callers : ClientStdioSend(c)
    \/ \E c \in Callers : ServerStdioSend(c)
    \/ \E keys \in InboundObjects, i \in IdSpace : ReceiveObject(keys, i)
    \/ \E c \in Callers : AwaitResponse(c)

SpecInbound == InitInbound /\ [][NextInbound]_allVars

\* C36: an inbound object without an id key resolves no pending request: the
\* table of pending requests and the waiters' slots are as they were, so the
\* request with id 0 is completed only by an object that carries id 0.
IdlessResolvesNothing ==
    [][(inbound' = inbound + 1 /\ "id" \notin Keys(envelope'))
          => (pending' = pending /\ slot' = slot)]_allVars

\* an object without id that deserializes as a Response is handled as the
\* Response with id 0
IdlessIsResponseZero ==
    [][(inbound' = inbound + 1 /\ "id" \notin Keys(envelope') /\ parsed'.variant = "Response")
          => (last'.op = "handle_response" /\ last'.id = 0)]_allVars

\* requests with another id than 0 are completed only by objects carrying
\* their id
OtherIdsNeedTheirId ==
    [][(inbound' = inbound + 1 /\ "id" \notin Keys(envelope'))
          => \A i \in IdSpace \ {0} : (i \in pending <=> i \in pending') /\ slot'[i] = slot[i]]_allVars

\* C37: handshake order on the server: initialized = true only after an
\* initialize request has been handled on the connection (client_info is
\* set), so a notifications/initialized that comes first does not open
\* tools/list and tools/call; and the flag, once true, stays true.
HandshakeOrder ==
    /\ [](client_connection.initialized => client_connection.client_info = "Some")
    /\ [][client_connection.initialized => client_connection'.initialized]_allVars

\* the flag, once true, stays true
InitializedIsStable ==
    [][client_connection.initialized => client_connection'.initialized]_allVars

\* C38: the client's view of the handshake agrees with what it sent:
\* assert_initialized succeeds only once notifications/initialized has been
\* sent; when sending it fails, initialize() returns an error and the client
\* is left not initialized, with no cached InitializeResponse.
ClientHandshakeAgrees ==
    /\ (client_op.pc \in {"idle", "done"} /\ assert_initialized) => notified
    /\ (/\ client_op.pc = "done"
        /\ client_op.name = "initialize"
        /\ client_op.announce = "failed")
          => (~client_op.result.ok /\ ~assert_initialized)

\* when sending the notification fails, initialize() does return an error
FailedAnnounceIsAnError ==
    (client_op.pc = "done" /\ client_op.name = "initialize" /\ client_op.announce = "failed")
       => ~client_op.result.ok

\* the InitializeResponse is cached before the notification is sent: when the
\* send is about to happen the client already counts as initialized
CachedBeforeAnnounce ==
    client_op.pc = "notifying" => assert_initialized

====
